---- MODULE Spec2Model ----
(***************************************************************************)
(* Model of the health-wise-ai-guardian analysis core:                     *)
(*   - AIAnalysisEngine (statistics, baselines, anomaly detection, risk    *)
(*     scoring, OLS forecasting),                                          *)
(*   - the HealthDashboard timer tick that drives the engine,              *)
(*   - UserContext, the routes of App and the life cycle of the dashboard  *)
(*     with its interval timer.                                            *)
(*   - AdvancedPredictiveEngine (episode rules, forecasts, interventions), *)
(*   - IntelligentAlertSystem (prioritisation, filtering, escalation).     *)
(*                                                                         *)
(* JavaScript numbers are modelled as pairs <<n, d>>:                      *)
(*   d > 0   the rational n/d in lowest terms,                             *)
(*   <<0,0>> NaN,   <<1,0>> +Infinity,   <<-1,0>> -Infinity.               *)
(* Arithmetic is exact on rationals; Math.sqrt is exact on perfect squares *)
(* and truncated to 1/SqrtScale elsewhere.  Signed zero is not modelled.   *)
(***************************************************************************)
EXTENDS Integers, Sequences, FiniteSets, TLC

VARIABLES patientBaselines, call, chartData, selectedPatient, dash, ticks,
          currentUser, route, mounted, timers, effectDeps, alertSystem

\* the state of the application around the dashboard: the logged-in user, the
\* location of the router, whether a HealthDashboard instance is mounted, the
\* interval timers that are running (each with the selectedPatient its
\* callback closed over), the dependencies the tick effect last ran with, and
\* the alert system, which no component calls
appVars == <<currentUser, route, mounted, timers, effectDeps, alertSystem>>

vars == <<patientBaselines, call, chartData, selectedPatient, dash, ticks,
          currentUser, route, mounted, timers, effectDeps, alertSystem>>

(***************************************************************************)
(* Bounds of the model.                                                    *)
(***************************************************************************)
SqrtScale == 100
MaxPairs == 6
MaxTicks == 22
MaxSeries == 4
MaxPeriods == 2
MaxSpikes == 2
QuietTicks == 9
MaxSessionTicks == 3
MaxEarlyTicks == 6
MaxClockSteps == 3
FloatBits == 8
MaxCorrLen == 3
MaxFlatLen == 6

\* the longest forecast asked of predictMultipleVitals
MaxForecast == 7

(***************************************************************************)
(* JavaScript number arithmetic.                                           *)
(***************************************************************************)
RECURSIVE GCD(_, _)
GCD(a, b) == IF b = 0 THEN a ELSE GCD(b, a % b)

AbsInt(n) == IF n < 0 THEN -n ELSE n

Sign(n) == IF n > 0 THEN 1 ELSE IF n < 0 THEN -1 ELSE 0

Frac(n, d) ==
  IF d = 0 THEN <<Sign(n), 0>>
  ELSE IF d = 1 THEN <<n, 1>>
  ELSE LET g == GCD(AbsInt(n), AbsInt(d))
       IN  <<(Sign(d) * n) \div g, AbsInt(d) \div g>>

Num(n) == <<n, 1>>

NaN == <<0, 0>>

IsNaN(x) == x = NaN

IsFinite(x) == x[2] > 0

Neg(x) == <<-x[1], x[2]>>

Add(x, y) ==
  IF x[2] = 1 /\ y[2] = 1 THEN <<x[1] + y[1], 1>>
  ELSE IF IsNaN(x) \/ IsNaN(y) THEN NaN
  ELSE IF x[2] = 0 /\ y[2] = 0 THEN (IF x = y THEN x ELSE NaN)
  ELSE IF x[2] = 0 THEN x
  ELSE IF y[2] = 0 THEN y
  ELSE LET g == GCD(x[2], y[2])
       IN  Frac(x[1] * (y[2] \div g) + y[1] * (x[2] \div g), x[2] * (y[2] \div g))

Sub(x, y) == Add(x, Neg(y))

Mul(x, y) ==
  IF x[2] = 1 /\ y[2] = 1 THEN <<x[1] * y[1], 1>>
  ELSE IF x[2] = 0 \/ y[2] = 0 THEN <<Sign(x[1]) * Sign(y[1]), 0>>
  ELSE LET g == GCD(AbsInt(x[1]), y[2])
           h == GCD(AbsInt(y[1]), x[2])
       IN  Frac((x[1] \div g) * (y[1] \div h), (x[2] \div h) * (y[2] \div g))

\* 1 / y for a finite y # 0
Inv(y) == IF y[1] < 0 THEN <<-y[2], -y[1]>> ELSE <<y[2], y[1]>>

Div(x, y) ==
  IF IsNaN(x) \/ IsNaN(y) THEN NaN
  ELSE IF y[2] = 0 THEN (IF x[2] = 0 THEN NaN ELSE Num(0))
  ELSE IF x[2] = 0 THEN <<x[1] * (IF y[1] < 0 THEN -1 ELSE 1), 0>>
  ELSE IF y[1] = 0 THEN <<Sign(x[1]), 0>>
  ELSE Mul(x, Inv(y))

\* x < y of JavaScript: false as soon as one side is NaN
Lt(x, y) ==
  IF x[2] = 1 /\ y[2] = 1 THEN x[1] < y[1]
  ELSE IF IsNaN(x) \/ IsNaN(y) THEN FALSE
  ELSE IF x[2] = 0 /\ y[2] = 0 THEN x[1] < y[1]
  ELSE IF x[2] = 0 THEN x[1] < 0
  ELSE IF y[2] = 0 THEN y[1] > 0
  ELSE LET g == GCD(x[2], y[2])
       IN  x[1] * (y[2] \div g) < y[1] * (x[2] \div g)

Gt(x, y) == Lt(y, x)

Le(x, y) == ~IsNaN(x) /\ ~IsNaN(y) /\ ~Lt(y, x)

Ge(x, y) == Le(y, x)

\* x === y of JavaScript
StrictEq(x, y) == ~IsNaN(x) /\ ~IsNaN(y) /\ x = y

MathAbs(x) == <<AbsInt(x[1]), x[2]>>

MathMin(x, y) == IF IsNaN(x) \/ IsNaN(y) THEN NaN ELSE IF Lt(y, x) THEN y ELSE x

MathMax(x, y) == IF IsNaN(x) \/ IsNaN(y) THEN NaN ELSE IF Lt(x, y) THEN y ELSE x

\* Math.round: nearest integer, ties towards +Infinity
MathRound(x) == IF x[2] = 0 THEN x ELSE Num((2 * x[1] + x[2]) \div (2 * x[2]))

RECURSIVE IsqrtBetween(_, _, _)
IsqrtBetween(n, lo, hi) ==
  IF lo >= hi THEN lo
  ELSE LET mid == (lo + hi + 1) \div 2
       IN  IF mid * mid <= n THEN IsqrtBetween(n, mid, hi)
           ELSE IsqrtBetween(n, lo, mid - 1)

Isqrt(n) == IsqrtBetween(n, 0, IF n < 46340 THEN n ELSE 46340)

\* the largest a with a * a dividing n (n > 0): strips the prime factors below
\* the cube root of what is left, which is then 1, a prime, a prime squared or a
\* product of two primes
RECURSIVE SquarePartFrom(_, _)
SquarePartFrom(n, a) ==
  IF a * a > n \div a THEN (IF Isqrt(n) * Isqrt(n) = n THEN Isqrt(n) ELSE 1)
  ELSE IF n % (a * a) = 0 THEN a * SquarePartFrom(n \div (a * a), a)
  ELSE IF n % a = 0 THEN SquarePartFrom(n \div a, a + 1)
  ELSE SquarePartFrom(n, a + 1)

SquarePart(n) == SquarePartFrom(n, 2)

\* the root of a square-free c, truncated to 1/SqrtScale
SqrtCore(c) == IF c = 1 THEN Num(1) ELSE Frac(Isqrt(c * SqrtScale * SqrtScale), SqrtScale)

\* Math.sqrt: sqrt(p/q) = a / (b * q') * sqrt(p' * q') with p = a*a*p', q = b*b*q'
\* and p', q' square-free, so that the result is exact whenever it is rational
MathSqrt(x) ==
  IF IsNaN(x) \/ x[1] < 0 THEN NaN
  ELSE IF x[2] = 0 \/ x[1] = 0 THEN x
  ELSE LET a == SquarePart(x[1])
           b == SquarePart(x[2])
           qq == x[2] \div (b * b)
       IN  Mul(Frac(a, b * qq), SqrtCore((x[1] \div (a * a)) * qq))

\* Math.pow(x, 2)
MathPow2(x) == Mul(x, x)

\* array.reduce((sum, val) => sum + val, 0)
RECURSIVE SumTo(_, _)
SumTo(s, n) == IF n = 0 THEN Num(0) ELSE Add(SumTo(s, n - 1), s[n])

SumSeq(s) == SumTo(s, Len(s))

\* array.map(f)
MapSeq(F(_), s) == [i \in 1..Len(s) |-> F(s[i])]

\* array.slice(-k)
SliceLast(s, k) == IF Len(s) <= k THEN s ELSE SubSeq(s, Len(s) - k + 1, Len(s))

\* Math.min(...data), Math.max(...data) of a non-empty array
RECURSIVE MinTo(_, _)
MinTo(s, n) == IF n = 1 THEN s[1] ELSE MathMin(MinTo(s, n - 1), s[n])

MinSeq(s) == MinTo(s, Len(s))

RECURSIVE MaxTo(_, _)
MaxTo(s, n) == IF n = 1 THEN s[1] ELSE MathMax(MaxTo(s, n - 1), s[n])

MaxSeq(s) == MaxTo(s, Len(s))

(***************************************************************************)
(* Rounded arithmetic.  A JavaScript number is a binary floating-point      *)
(* number and every operation rounds its exact result to the nearest one   *)
(* (ties to even).  Fl rounds to FloatBits significant bits, where the      *)
(* language rounds to 53; the exponent is unbounded here.                   *)
(***************************************************************************)
RECURSIVE FloorLog2Int(_)
FloorLog2Int(n) == IF n < 2 THEN 0 ELSE 1 + FloorLog2Int(n \div 2)

\* floor(log2(n / d)) for n, d > 0
FloorLog2(n, d) ==
  LET e0 == FloorLog2Int(n) - FloorLog2Int(d)
  IN  IF e0 >= 0 THEN (IF (2 ^ e0) * d <= n THEN e0 ELSE e0 - 1)
      ELSE (IF d <= n * (2 ^ (-e0)) THEN e0 ELSE e0 - 1)

\* a / b (a >= 0, b > 0) rounded to the nearest integer, ties to even
RoundHalfEven(a, b) ==
  LET q == a \div b
      r == a % b
  IN  IF 2 * r > b \/ (2 * r = b /\ q % 2 = 1) THEN q + 1 ELSE q

Fl(x) ==
  IF x[2] = 0 \/ x[1] = 0 THEN x
  ELSE LET n == AbsInt(x[1])
           d == x[2]
           k == FloatBits - 1 - FloorLog2(n, d)
           m == IF k >= 0 THEN RoundHalfEven(n * (2 ^ k), d) ELSE RoundHalfEven(n, d * (2 ^ (-k)))
       IN  IF k >= 0 THEN Frac(Sign(x[1]) * m, 2 ^ k) ELSE Num(Sign(x[1]) * m * (2 ^ (-k)))

AddRounded(x, y) == Fl(Add(x, y))

SubRounded(x, y) == Fl(Sub(x, y))

MulRounded(x, y) == Fl(Mul(x, y))

DivRounded(x, y) == Fl(Div(x, y))

\* Math.sqrt, correctly rounded: the root of n / d is the root of n * d * 4^s
\* over d * 2^s; when that integer is no square its root lies strictly between
\* two integers, and the midpoint rounds as the root does
SqrtRounded(x) ==
  IF IsNaN(x) \/ x[1] < 0 THEN NaN
  ELSE IF x[2] = 0 \/ x[1] = 0 THEN x
  ELSE LET nd == x[1] * x[2]
           s == (29 - FloorLog2Int(nd)) \div 2
           scaled == nd * (4 ^ s)
           root == Isqrt(scaled)
       IN  IF root * root = scaled THEN Fl(Frac(root, x[2] * (2 ^ s)))
           ELSE Fl(Frac(2 * root + 1, 2 * x[2] * (2 ^ s)))

\* array.reduce((sum, val) => sum + val, 0), every addition rounded
RECURSIVE SumRoundedTo(_, _)
SumRoundedTo(s, n) == IF n = 0 THEN Num(0) ELSE AddRounded(SumRoundedTo(s, n - 1), s[n])

SumRounded(s) == SumRoundedTo(s, Len(s))

(***************************************************************************)
(* AIAnalysisEngine.  The private field patientBaselines (a Map) is the    *)
(* function pb whose domain is the set of keys present.                    *)
(***************************************************************************)
\* mutant: the deviation keeps its sign
calculateZScore_signed(value, mean, std) ==
  IF StrictEq(std, Num(0)) THEN Num(0)
  ELSE Div(Sub(value, mean), std)

calculateZScore(value, mean, std) ==
  IF StrictEq(std, Num(0)) THEN Num(0)
  ELSE MathAbs(Div(Sub(value, mean), std))

calculateStandardDeviation(data) ==
  LET mean == Div(SumSeq(data), Num(Len(data)))
      variance == Div(SumSeq(MapSeq(LAMBDA v : MathPow2(Sub(v, mean)), data)), Num(Len(data)))
  IN  MathSqrt(variance)

calculateCorrelation(x, y) ==
  IF Len(x) # Len(y) \/ Len(x) = 0 THEN Num(0)
  ELSE LET meanX == Div(SumSeq(x), Num(Len(x)))
           meanY == Div(SumSeq(y), Num(Len(y)))
           dx == [i \in 1..Len(x) |-> Sub(x[i], meanX)]
           dy == [i \in 1..Len(x) |-> Sub(y[i], meanY)]
           numerator == SumSeq([i \in 1..Len(x) |-> Mul(dx[i], dy[i])])
           denomX == SumSeq([i \in 1..Len(x) |-> Mul(dx[i], dx[i])])
           denomY == SumSeq([i \in 1..Len(x) |-> Mul(dy[i], dy[i])])
           denom == MathSqrt(Mul(denomX, denomY))
       IN  IF StrictEq(denom, Num(0)) THEN Num(0) ELSE Div(numerator, denom)

\* calculateCorrelation with every operation rounded.  The loop keeps three
\* running sums; acc[i] is <<numerator, denomX, denomY>> after i rounds.
calculateCorrelationRounded(x, y) ==
  IF Len(x) # Len(y) \/ Len(x) = 0 THEN Num(0)
  ELSE LET meanX == DivRounded(SumRounded(x), Num(Len(x)))
           meanY == DivRounded(SumRounded(y), Num(Len(y)))
           dx == [i \in 1..Len(x) |-> SubRounded(x[i], meanX)]
           dy == [i \in 1..Len(x) |-> SubRounded(y[i], meanY)]
           numerator == SumRounded([i \in 1..Len(x) |-> MulRounded(dx[i], dy[i])])
           denomX == SumRounded([i \in 1..Len(x) |-> MulRounded(dx[i], dx[i])])
           denomY == SumRounded([i \in 1..Len(x) |-> MulRounded(dy[i], dy[i])])
           denom == SqrtRounded(MulRounded(denomX, denomY))
       IN  IF StrictEq(denom, Num(0)) THEN Num(0) ELSE DivRounded(numerator, denom)

\* mutant: the standard deviation of the baseline is halved
calculateBaslineStats_halfSpread(data) ==
  [mean |-> Div(SumSeq(data), Num(Len(data))),
   std  |-> Div(calculateStandardDeviation(data), Num(2)),
   min  |-> MinSeq(data),
   max  |-> MaxSeq(data)]

calculateBaslineStats(data) ==
  [mean |-> Div(SumSeq(data), Num(Len(data))),
   std  |-> calculateStandardDeviation(data),
   min  |-> MinSeq(data),
   max  |-> MaxSeq(data)]

\* mutant: a wrong default spread for the heart rate
getDefaultBaseline_narrowHeartRate ==
  [heartRate   |-> [mean |-> Num(75),  std |-> Num(10),    min |-> Num(60),     max |-> Num(90)],
   systolic    |-> [mean |-> Num(120), std |-> Num(20),    min |-> Num(90),     max |-> Num(140)],
   diastolic   |-> [mean |-> Num(80),  std |-> Num(10),    min |-> Num(60),     max |-> Num(90)],
   temperature |-> [mean |-> Num(37),  std |-> Frac(1, 2), min |-> Frac(73, 2), max |-> Frac(75, 2)],
   oxygenSat   |-> [mean |-> Num(98),  std |-> Num(2),     min |-> Num(95),     max |-> Num(100)],
   dataPoints  |-> 0]

getDefaultBaseline ==
  [heartRate   |-> [mean |-> Num(75),  std |-> Num(15),    min |-> Num(60),     max |-> Num(90)],
   systolic    |-> [mean |-> Num(120), std |-> Num(20),    min |-> Num(90),     max |-> Num(140)],
   diastolic   |-> [mean |-> Num(80),  std |-> Num(10),    min |-> Num(60),     max |-> Num(90)],
   temperature |-> [mean |-> Num(37),  std |-> Frac(1, 2), min |-> Frac(73, 2), max |-> Frac(75, 2)],
   oxygenSat   |-> [mean |-> Num(98),  std |-> Num(2),     min |-> Num(95),     max |-> Num(100)],
   dataPoints  |-> 0]

\* this.patientBaselines.set(patientId, baseline)
MapSet(pb, patientId, baseline) ==
  [k \in DOMAIN pb \cup {patientId} |-> IF k = patientId THEN baseline ELSE pb[k]]

\* this.patientBaselines.get(patientId) || this.getDefaultBaseline()
BaselineOf(pb, patientId) ==
  IF patientId \in DOMAIN pb THEN pb[patientId] ELSE getDefaultBaseline

\* mutant: an empty history stores the default baseline for the patient
updatePatientBaseline_storesDefault(pb, patientId, data) ==
  IF Len(data) = 0
  THEN [ret |-> getDefaultBaseline, pb |-> MapSet(pb, patientId, getDefaultBaseline)]
  ELSE LET baseline ==
             [heartRate   |-> calculateBaslineStats(MapSeq(LAMBDA d : d.heartRate, data)),
              systolic    |-> calculateBaslineStats(MapSeq(LAMBDA d : d.bloodPressure.systolic, data)),
              diastolic   |-> calculateBaslineStats(MapSeq(LAMBDA d : d.bloodPressure.diastolic, data)),
              temperature |-> calculateBaslineStats(MapSeq(LAMBDA d : d.temperature, data)),
              oxygenSat   |-> calculateBaslineStats(MapSeq(LAMBDA d : d.oxygenSat, data)),
              dataPoints  |-> Len(data)]
       IN  [ret |-> baseline, pb |-> MapSet(pb, patientId, baseline)]

\* the returned baseline (ret) and the map after the call (pb)
updatePatientBaseline(pb, patientId, data) ==
  IF Len(data) = 0 THEN [ret |-> getDefaultBaseline, pb |-> pb]
  ELSE LET baseline ==
             [heartRate   |-> calculateBaslineStats(MapSeq(LAMBDA d : d.heartRate, data)),
              systolic    |-> calculateBaslineStats(MapSeq(LAMBDA d : d.bloodPressure.systolic, data)),
              diastolic   |-> calculateBaslineStats(MapSeq(LAMBDA d : d.bloodPressure.diastolic, data)),
              temperature |-> calculateBaslineStats(MapSeq(LAMBDA d : d.temperature, data)),
              oxygenSat   |-> calculateBaslineStats(MapSeq(LAMBDA d : d.oxygenSat, data)),
              dataPoints  |-> Len(data)]
       IN  [ret |-> baseline, pb |-> MapSet(pb, patientId, baseline)]

\* mutant: critical already at z = 3
AnomalyInsight_criticalAtThree(title, metric, value, z) ==
  [type |-> "anomaly",
   severity |-> IF Ge(z, Num(3)) THEN "critical" ELSE "high",
   title |-> title,
   confidence |-> MathMin(Num(95), Mul(z, Num(25))),
   metric |-> metric,
   value |-> value]

\* the insight pushed for one metric (the description and explanation texts
\* are display strings and are left out)
AnomalyInsight(title, metric, value, z) ==
  [type |-> "anomaly",
   severity |-> IF Gt(z, Num(3)) THEN "critical" ELSE "high",
   title |-> title,
   confidence |-> MathMin(Num(95), Mul(z, Num(25))),
   metric |-> metric,
   value |-> value]

\* mutant: the temperature z-score raises an anomaly as well
detectAnomalies_withTemperature(pb, patientId, currentData, historicalData) ==
  LET baseline == BaselineOf(pb, patientId)
      hrZScore == calculateZScore(currentData.heartRate, baseline.heartRate.mean, baseline.heartRate.std)
      sysZScore == calculateZScore(currentData.bloodPressure.systolic, baseline.systolic.mean, baseline.systolic.std)
      tempZScore == calculateZScore(currentData.temperature, baseline.temperature.mean, baseline.temperature.std)
      hrPart == IF Gt(hrZScore, Num(2))
                THEN <<AnomalyInsight("Heart Rate Anomaly", "heartRate", currentData.heartRate, hrZScore)>>
                ELSE <<>>
      sysPart == IF Gt(sysZScore, Num(2))
                 THEN <<AnomalyInsight("Blood Pressure Anomaly", "bloodPressure", currentData.bloodPressure.systolic, sysZScore)>>
                 ELSE <<>>
      tempPart == IF Gt(tempZScore, Num(2))
                  THEN <<AnomalyInsight("Temperature Anomaly", "temperature", currentData.temperature, tempZScore)>>
                  ELSE <<>>
      recentData == SliceLast(historicalData, 10)
      correlation == calculateCorrelation(MapSeq(LAMBDA d : d.heartRate, recentData),
                                          MapSeq(LAMBDA d : d.bloodPressure.systolic, recentData))
      corrPart == IF Len(historicalData) >= 10 /\ Gt(MathAbs(correlation), Frac(7, 10))
                  THEN <<[type |-> "correlation", severity |-> "medium",
                          title |-> "Strong HR-BP Correlation Detected",
                          confidence |-> Mul(MathAbs(correlation), Num(100)),
                          metric |-> "none", value |-> NaN]>>
                  ELSE <<>>
  IN  hrPart \o sysPart \o tempPart \o corrPart

detectAnomalies(pb, patientId, currentData, historicalData) ==
  LET baseline == BaselineOf(pb, patientId)
      hrZScore == calculateZScore(currentData.heartRate, baseline.heartRate.mean, baseline.heartRate.std)
      sysZScore == calculateZScore(currentData.bloodPressure.systolic, baseline.systolic.mean, baseline.systolic.std)
      hrPart == IF Gt(hrZScore, Num(2))
                THEN <<AnomalyInsight("Heart Rate Anomaly", "heartRate", currentData.heartRate, hrZScore)>>
                ELSE <<>>
      sysPart == IF Gt(sysZScore, Num(2))
                 THEN <<AnomalyInsight("Blood Pressure Anomaly", "bloodPressure", currentData.bloodPressure.systolic, sysZScore)>>
                 ELSE <<>>
      recentData == SliceLast(historicalData, 10)
      correlation == calculateCorrelation(MapSeq(LAMBDA d : d.heartRate, recentData),
                                          MapSeq(LAMBDA d : d.bloodPressure.systolic, recentData))
      corrPart == IF Len(historicalData) >= 10 /\ Gt(MathAbs(correlation), Frac(7, 10))
                  THEN <<[type |-> "correlation", severity |-> "medium",
                          title |-> "Strong HR-BP Correlation Detected",
                          confidence |-> Mul(MathAbs(correlation), Num(100)),
                          metric |-> "none", value |-> NaN]>>
                  ELSE <<>>
  IN  hrPart \o sysPart \o corrPart

\* data[data.length - 1] || 0
LastOrZero(data) ==
  IF Len(data) = 0 THEN Num(0)
  ELSE IF IsNaN(data[Len(data)]) \/ data[Len(data)] = Num(0) THEN Num(0)
  ELSE data[Len(data)]

\* lines 200-210: the least-squares line through (0, data[0]) .. (n-1, data[n-1]),
\* as the pair <<slope, intercept>>; data is 1-based here, x[i] = i - 1
LeastSquaresLine(data) ==
  LET n == Len(data)
      sumX == SumSeq([i \in 1..n |-> Num(i - 1)])
      sumY == SumSeq(data)
      sumXY == SumSeq([i \in 1..n |-> Mul(Num(i - 1), data[i])])
      sumX2 == SumSeq([i \in 1..n |-> Num((i - 1) * (i - 1))])
      slope == Div(Sub(Mul(Num(n), sumXY), Mul(sumX, sumY)),
                   Sub(Mul(Num(n), sumX2), Mul(sumX, sumX)))
      intercept == Div(Sub(sumY, Mul(slope, sumX)), Num(n))
  IN  <<slope, intercept>>

\* line 212
LinearPrediction(data, periods) ==
  LET line == LeastSquaresLine(data)
  IN  Add(Mul(line[1], Num(Len(data) + periods - 1)), line[2])

\* lines 215-219
RSquaredConfidence(data) ==
  LET n == Len(data)
      line == LeastSquaresLine(data)
      yMean == Div(SumSeq(data), Num(n))
      ssRes == SumSeq([i \in 1..n |-> MathPow2(Sub(data[i], Add(Mul(line[1], Num(i - 1)), line[2])))])
      ssTot == SumSeq([i \in 1..n |-> MathPow2(Sub(data[i], yMean))])
      rSquared == Sub(Num(1), Div(ssRes, ssTot))
  IN  MathMax(Num(30), MathMin(Num(90), Mul(rSquared, Num(100))))

\* mutant: the regression already runs on two values
predictNextValue_minTwo(data, periods) ==
  IF Len(data) < 2 THEN [prediction |-> LastOrZero(data), confidence |-> Num(30)]
  ELSE [prediction |-> LinearPrediction(data, periods), confidence |-> RSquaredConfidence(data)]

predictNextValue(data, periods) ==
  IF Len(data) < 3 THEN [prediction |-> LastOrZero(data), confidence |-> Num(30)]
  ELSE [prediction |-> LinearPrediction(data, periods), confidence |-> RSquaredConfidence(data)]

\* const { prediction } = this.predictNextValue(data): the prediction alone
PredictionOnly(data, periods) ==
  IF Len(data) < 3 THEN LastOrZero(data) ELSE LinearPrediction(data, periods)

\* mutant: the cap at 100 is missing
CardiovascularRisk_uncapped(hrZScore, sysZScore, diaZScore) ==
  Mul(Add(Add(hrZScore, sysZScore), diaZScore), Num(15))

\* line 235
CardiovascularRisk(hrZScore, sysZScore, diaZScore) ==
  MathMin(Num(100), Mul(Add(Add(hrZScore, sysZScore), diaZScore), Num(15)))

\* line 239
RespiratoryRisk(o2ZScore) == MathMin(Num(100), Mul(o2ZScore, Num(25)))

\* line 243
MetabolicRisk(tempZScore) == MathMin(Num(100), Mul(tempZScore, Num(20)))

\* mutant: the three categories weigh the same
OverallRisk_equalWeights(cardiovascularRisk, respiratoryRisk, metabolicRisk) ==
  Div(Add(Add(cardiovascularRisk, respiratoryRisk), metabolicRisk), Num(3))

\* line 246
OverallRisk(cardiovascularRisk, respiratoryRisk, metabolicRisk) ==
  Add(Add(Mul(cardiovascularRisk, Frac(1, 2)), Mul(respiratoryRisk, Frac(3, 10))),
      Mul(metabolicRisk, Frac(2, 10)))

\* mutant: ten baseline samples already count as a full baseline
RiskConfidence_fullAtTen(dataPoints) ==
  IF dataPoints >= 10 THEN Num(85) ELSE MathMin(Num(70), Num(dataPoints * 7))

\* line 269
RiskConfidence(dataPoints) ==
  IF dataPoints > 10 THEN Num(85) ELSE MathMin(Num(70), Num(dataPoints * 7))

\* lines 249-262
RiskTrend(baseline, cardiovascularRisk, historicalData) ==
  IF Len(historicalData) >= 5
  THEN LET recentRisks ==
             MapSeq(LAMBDA data :
                      Mul(Add(calculateZScore(data.heartRate, baseline.heartRate.mean, baseline.heartRate.std),
                              calculateZScore(data.bloodPressure.systolic, baseline.systolic.mean, baseline.systolic.std)),
                          Num(15)),
                    SliceLast(historicalData, 5))
           prediction == PredictionOnly(recentRisks, 1)
           currentRisk == cardiovascularRisk
       IN  IF Gt(prediction, Add(currentRisk, Num(10))) THEN "deteriorating"
           ELSE IF Lt(prediction, Sub(currentRisk, Num(10))) THEN "improving"
           ELSE "stable"
  ELSE "stable"

calculateHealthRiskScore(pb, patientId, currentData, historicalData) ==
  LET baseline == BaselineOf(pb, patientId)
      hrZScore == calculateZScore(currentData.heartRate, baseline.heartRate.mean, baseline.heartRate.std)
      sysZScore == calculateZScore(currentData.bloodPressure.systolic, baseline.systolic.mean, baseline.systolic.std)
      diaZScore == calculateZScore(currentData.bloodPressure.diastolic, baseline.diastolic.mean, baseline.diastolic.std)
      cardiovascularRisk == CardiovascularRisk(hrZScore, sysZScore, diaZScore)
      o2ZScore == calculateZScore(currentData.oxygenSat, baseline.oxygenSat.mean, baseline.oxygenSat.std)
      respiratoryRisk == RespiratoryRisk(o2ZScore)
      tempZScore == calculateZScore(currentData.temperature, baseline.temperature.mean, baseline.temperature.std)
      metabolicRisk == MetabolicRisk(tempZScore)
      overall == OverallRisk(cardiovascularRisk, respiratoryRisk, metabolicRisk)
  IN  [overall |-> MathRound(overall),
       cardiovascular |-> MathRound(cardiovascularRisk),
       respiratory |-> MathRound(respiratoryRisk),
       metabolic |-> MathRound(metabolicRisk),
       confidence |-> RiskConfidence(baseline.dataPoints),
       trend |-> RiskTrend(baseline, cardiovascularRisk, historicalData)]

generateRecommendations(patientId, currentData, riskScore, insights) ==
  (IF Gt(riskScore.overall, Num(60))
   THEN <<[type |-> "recommendation", severity |-> "high",
           title |-> "Consider Medical Consultation", confidence |-> riskScore.confidence,
           metric |-> "none", value |-> NaN]>>
   ELSE <<>>)
  \o
  (IF Gt(currentData.heartRate, Num(100)) /\ Gt(riskScore.cardiovascular, Num(40))
   THEN <<[type |-> "recommendation", severity |-> "medium",
           title |-> "Heart Rate Management", confidence |-> Num(75),
           metric |-> "none", value |-> NaN]>>
   ELSE <<>>)
  \o
  (IF Lt(currentData.oxygenSat, Num(96))
   THEN <<[type |-> "recommendation", severity |-> "high",
           title |-> "Oxygen Monitoring", confidence |-> Num(80),
           metric |-> "none", value |-> NaN]>>
   ELSE <<>>)


(***************************************************************************)
(* AdvancedPredictiveEngine.                                               *)
(***************************************************************************)
pearsonCorrelation(x, y) ==
  IF Len(x) # Len(y) \/ Len(x) = 0 THEN Num(0)
  ELSE LET n == Num(Len(x))
           sumX == SumSeq(x)
           sumY == SumSeq(y)
           sumXY == SumSeq([i \in 1..Len(x) |-> Mul(x[i], y[i])])
           sumX2 == SumSeq([i \in 1..Len(x) |-> Mul(x[i], x[i])])
           sumY2 == SumSeq([i \in 1..Len(x) |-> Mul(y[i], y[i])])
           numerator == Sub(Mul(n, sumXY), Mul(sumX, sumY))
           denominator == MathSqrt(Mul(Sub(Mul(n, sumX2), Mul(sumX, sumX)),
                                       Sub(Mul(n, sumY2), Mul(sumY, sumY))))
       IN  IF StrictEq(denominator, Num(0)) THEN Num(0) ELSE Div(numerator, denominator)

\* pearsonCorrelation with every operation rounded
pearsonCorrelationRounded(x, y) ==
  IF Len(x) # Len(y) \/ Len(x) = 0 THEN Num(0)
  ELSE LET n == Num(Len(x))
           sumX == SumRounded(x)
           sumY == SumRounded(y)
           sumXY == SumRounded([i \in 1..Len(x) |-> MulRounded(x[i], y[i])])
           sumX2 == SumRounded([i \in 1..Len(x) |-> MulRounded(x[i], x[i])])
           sumY2 == SumRounded([i \in 1..Len(x) |-> MulRounded(y[i], y[i])])
           numerator == SubRounded(MulRounded(n, sumXY), MulRounded(sumX, sumY))
           denominator ==
             SqrtRounded(MulRounded(SubRounded(MulRounded(n, sumX2), MulRounded(sumX, sumX)),
                                    SubRounded(MulRounded(n, sumY2), MulRounded(sumY, sumY))))
       IN  IF StrictEq(denominator, Num(0)) THEN Num(0) ELSE DivRounded(numerator, denominator)

\* extractMetricValues: the series of one metric (0 for an unknown metric)
extractMetricValues(data, metric) ==
  MapSeq(LAMBDA d : IF metric = "heartRate" THEN d.heartRate
                    ELSE IF metric = "systolic" THEN d.bloodPressure.systolic
                    ELSE IF metric = "diastolic" THEN d.bloodPressure.diastolic
                    ELSE IF metric = "temperature" THEN d.temperature
                    ELSE IF metric = "oxygenSat" THEN d.oxygenSat
                    ELSE Num(0), data)

\* generateTimeSeriesPredictions: level + i * trend, not below 0
generateTimeSeriesPredictions(values, periods) ==
  LET level == values[Len(values)]
      trend == IF Len(values) > 1 THEN Sub(values[Len(values)], values[Len(values) - 1]) ELSE Num(0)
  IN  [i \in 1..periods |->
         [value |-> MathMax(Num(0), Add(level, Mul(Num(i), trend))),
          confidence |-> MathMax(Num(30), Num(90 - i * 10))]]

ForecastMetrics == <<"heartRate", "systolic", "diastolic", "temperature", "oxygenSat">>

\* predictMultipleVitals: the forecasts of the five metrics; the timestamps and
\* the cross correlations (ranked with a random influence) are left out
predictMultipleVitals(historicalData, periods) ==
  IF Len(historicalData) < 10 THEN <<>>
  ELSE [m \in 1..Len(ForecastMetrics) |->
          [metric |-> ForecastMetrics[m],
           predictions |-> generateTimeSeriesPredictions(
                             extractMetricValues(historicalData, ForecastMetrics[m]), periods)]]

\* historicalData.length < 20: too little history for an episode prediction
EpisodeMinimum == 20

\* calculateVariability: the mean absolute difference of neighbours
calculateVariability(values) ==
  IF Len(values) < 2 THEN Num(0)
  ELSE LET diffs == [i \in 1..(Len(values) - 1) |-> MathAbs(Sub(values[i + 1], values[i]))]
       IN  Div(SumSeq(diffs), Num(Len(diffs)))

\* calculateTrend: the least-squares slope over x = 0 .. n-1
calculateTrend(values) ==
  IF Len(values) < 3 THEN Num(0)
  ELSE LET n == Num(Len(values))
           sumX == SumSeq([i \in 1..Len(values) |-> Num(i - 1)])
           sumY == SumSeq(values)
           sumXY == SumSeq([i \in 1..Len(values) |-> Mul(Num(i - 1), values[i])])
           sumX2 == SumSeq([i \in 1..Len(values) |-> Num((i - 1) * (i - 1))])
       IN  Div(Sub(Mul(n, sumXY), Mul(sumX, sumY)), Sub(Mul(n, sumX2), Mul(sumX, sumX)))

\* the rules of an assessment that fired, in the order the code tests them:
\* each rule is <<condition, increment, label>>
FiredRules(rules) == SelectSeq(rules, LAMBDA rule : rule[1])

\* riskScore += increment for every fired rule
RiskScoreOf(rules) == SumSeq([i \in 1..Len(FiredRules(rules)) |-> FiredRules(rules)[i][2]])

\* triggers.push(label) for every fired rule
TriggersOf(rules) == [i \in 1..Len(FiredRules(rules)) |-> FiredRules(rules)[i][3]]

\* mutant: the heart rate trend weighs as much as the variability
CardiacRules_heavierTrend(data) ==
  LET recentData == SliceLast(data, 10)
      heartRates == MapSeq(LAMBDA d : d.heartRate, recentData)
      systolics == MapSeq(LAMBDA d : d.bloodPressure.systolic, recentData)
  IN  <<<<Gt(calculateVariability(heartRates), Num(20)), Frac(3, 10), "High heart rate variability">>,
        <<Gt(calculateTrend(heartRates), Num(5)), Frac(3, 10), "Increasing heart rate trend">>,
        <<Gt(MathAbs(pearsonCorrelation(heartRates, systolics)), Frac(7, 10)), Frac(2, 10),
          "Abnormal HR-BP correlation">>>>

CardiacRules(data) ==
  LET recentData == SliceLast(data, 10)
      heartRates == MapSeq(LAMBDA d : d.heartRate, recentData)
      systolics == MapSeq(LAMBDA d : d.bloodPressure.systolic, recentData)
  IN  <<<<Gt(calculateVariability(heartRates), Num(20)), Frac(3, 10), "High heart rate variability">>,
        <<Gt(calculateTrend(heartRates), Num(5)), Frac(2, 10), "Increasing heart rate trend">>,
        <<Gt(MathAbs(pearsonCorrelation(heartRates, systolics)), Frac(7, 10)), Frac(2, 10),
          "Abnormal HR-BP correlation">>>>

assessCardiacRisk(data) ==
  [probability |-> MathMin(Frac(9, 10), RiskScoreOf(CardiacRules(data))),
   confidence |-> MathMin(Num(85), Num(Len(TriggersOf(CardiacRules(data))) * 25)),
   triggers |-> TriggersOf(CardiacRules(data))]

HypertensiveRules(data) ==
  LET recentData == SliceLast(data, 10)
      systolics == MapSeq(LAMBDA d : d.bloodPressure.systolic, recentData)
      diastolics == MapSeq(LAMBDA d : d.bloodPressure.diastolic, recentData)
      avgSystolic == Div(SumSeq(systolics), Num(Len(systolics)))
  IN  <<<<Gt(calculateTrend(systolics), Num(3)), Frac(4, 10), "Rising systolic pressure">>,
        <<Gt(calculateTrend(diastolics), Num(2)), Frac(3, 10), "Rising diastolic pressure">>,
        <<Gt(avgSystolic, Num(140)), Frac(3, 10), "Elevated systolic readings">>>>

assessHypertensiveRisk(data) ==
  [probability |-> MathMin(Frac(9, 10), RiskScoreOf(HypertensiveRules(data))),
   confidence |-> MathMin(Num(85), Num(Len(TriggersOf(HypertensiveRules(data))) * 20 + 25)),
   triggers |-> TriggersOf(HypertensiveRules(data))]

RespiratoryRules(data) ==
  LET recentData == SliceLast(data, 10)
      oxygenSats == MapSeq(LAMBDA d : d.oxygenSat, recentData)
      heartRates == MapSeq(LAMBDA d : d.heartRate, recentData)
      avgO2 == Div(SumSeq(oxygenSats), Num(Len(oxygenSats)))
  IN  <<<<Lt(calculateTrend(oxygenSats), Num(-1)), Frac(4, 10), "Declining oxygen saturation">>,
        <<Lt(avgO2, Num(96)), Frac(3, 10), "Low oxygen saturation">>,
        <<Lt(pearsonCorrelation(heartRates, oxygenSats), Frac(-1, 2)), Frac(2, 10),
          "Compensatory heart rate response">>>>

assessRespiratoryRisk(data) ==
  [probability |-> MathMin(Frac(8, 10), RiskScoreOf(RespiratoryRules(data))),
   confidence |-> MathMin(Num(80), Num(Len(TriggersOf(RespiratoryRules(data))) * 20 + 20)),
   triggers |-> TriggersOf(RespiratoryRules(data))]

\* one prediction of predictHealthEpisodes; the recommendations are fixed
\* texts per type and are left out
EpisodePrediction(type, risk, timeframe, severity) ==
  [type |-> type, probability |-> risk.probability, timeframe |-> timeframe,
   severity |-> severity, confidence |-> risk.confidence, triggers |-> risk.triggers]

\* mutant: a risk equal to the threshold is predicted as well
predictHealthEpisodes_atThreshold(patientId, historicalData) ==
  IF Len(historicalData) < EpisodeMinimum THEN <<>>
  ELSE LET cardiacRisk == assessCardiacRisk(historicalData)
           hypertensiveRisk == assessHypertensiveRisk(historicalData)
           respiratoryRisk == assessRespiratoryRisk(historicalData)
       IN  (IF Ge(cardiacRisk.probability, Frac(3, 10))
            THEN <<EpisodePrediction("cardiac_event", cardiacRisk, "6-12 hours",
                     IF Gt(cardiacRisk.probability, Frac(7, 10)) THEN "critical" ELSE "high")>>
            ELSE <<>>)
           \o
           (IF Ge(hypertensiveRisk.probability, Frac(25, 100))
            THEN <<EpisodePrediction("hypertensive_crisis", hypertensiveRisk, "3-8 hours",
                     IF Gt(hypertensiveRisk.probability, Frac(6, 10)) THEN "critical" ELSE "high")>>
            ELSE <<>>)
           \o
           (IF Ge(respiratoryRisk.probability, Frac(2, 10))
            THEN <<EpisodePrediction("respiratory_distress", respiratoryRisk, "4-10 hours",
                     IF Gt(respiratoryRisk.probability, Frac(5, 10)) THEN "high" ELSE "medium")>>
            ELSE <<>>)

predictHealthEpisodes(patientId, historicalData) ==
  IF Len(historicalData) < EpisodeMinimum THEN <<>>
  ELSE LET cardiacRisk == assessCardiacRisk(historicalData)
           hypertensiveRisk == assessHypertensiveRisk(historicalData)
           respiratoryRisk == assessRespiratoryRisk(historicalData)
       IN  (IF Gt(cardiacRisk.probability, Frac(3, 10))
            THEN <<EpisodePrediction("cardiac_event", cardiacRisk, "6-12 hours",
                     IF Gt(cardiacRisk.probability, Frac(7, 10)) THEN "critical" ELSE "high")>>
            ELSE <<>>)
           \o
           (IF Gt(hypertensiveRisk.probability, Frac(25, 100))
            THEN <<EpisodePrediction("hypertensive_crisis", hypertensiveRisk, "3-8 hours",
                     IF Gt(hypertensiveRisk.probability, Frac(6, 10)) THEN "critical" ELSE "high")>>
            ELSE <<>>)
           \o
           (IF Gt(respiratoryRisk.probability, Frac(2, 10))
            THEN <<EpisodePrediction("respiratory_distress", respiratoryRisk, "4-10 hours",
                     IF Gt(respiratoryRisk.probability, Frac(5, 10)) THEN "high" ELSE "medium")>>
            ELSE <<>>)

\* the table of calculateInterventionImpact: <<metric, improvement>> in the
\* order of the object's keys; an unknown intervention has no entry
InterventionTable(intervention) ==
  IF intervention = "exercise" THEN <<<<"heartRate", -5>>, <<"systolic", -8>>, <<"diastolic", -5>>>>
  ELSE IF intervention = "diet_modification" THEN <<<<"systolic", -12>>, <<"diastolic", -8>>>>
  ELSE IF intervention = "stress_reduction" THEN <<<<"heartRate", -8>>, <<"systolic", -10>>>>
  ELSE IF intervention = "medication_adherence" THEN <<<<"systolic", -20>>, <<"diastolic", -15>>>>
  ELSE <<>>

getCurrentMetricValue(data, metric) ==
  IF metric = "heartRate" THEN data.heartRate
  ELSE IF metric = "systolic" THEN data.bloodPressure.systolic
  ELSE IF metric = "diastolic" THEN data.bloodPressure.diastolic
  ELSE IF metric = "temperature" THEN data.temperature
  ELSE IF metric = "oxygenSat" THEN data.oxygenSat
  ELSE Num(0)

assessInterventionFeasibility(intervention) ==
  IF intervention \in {"stress_reduction", "medication_adherence"} THEN "high"
  ELSE IF intervention = "lifestyle_change" THEN "low"
  ELSE "medium"

calculateInterventionImpact(intervention, current, historical) ==
  LET interventionImpacts == InterventionTable(intervention)
      expectedOutcomes ==
        [k \in 1..Len(interventionImpacts) |->
           LET currentValue == getCurrentMetricValue(current, interventionImpacts[k][1])
           IN  [metric |-> interventionImpacts[k][1],
                currentValue |-> currentValue,
                predictedValue |-> Add(currentValue, Num(interventionImpacts[k][2])),
                improvement |-> MathAbs(Num(interventionImpacts[k][2])),
                confidence |-> 75]]
  IN  [intervention |-> intervention,
       expectedOutcomes |-> expectedOutcomes,
       riskReduction |->
         SumSeq([k \in 1..Len(expectedOutcomes) |->
                   Mul(Div(expectedOutcomes[k].improvement, expectedOutcomes[k].currentValue),
                       Frac(2, 10))]),
       feasibility |-> assessInterventionFeasibility(intervention)]

\* mutant: the impacts are returned in the order of the interventions
SortByRiskReduction_unsorted(impacts) == impacts

\* impacts.sort((a, b) => b.riskReduction - a.riskReduction): a stable sort,
\* larger reductions first
RECURSIVE SortByRiskReduction(_)
SortByRiskReduction(impacts) ==
  IF Len(impacts) <= 1 THEN impacts
  ELSE LET sorted == SortByRiskReduction(SubSeq(impacts, 1, Len(impacts) - 1))
           last == impacts[Len(impacts)]
           before == SelectSeq(sorted, LAMBDA e : Ge(e.riskReduction, last.riskReduction))
           after == SelectSeq(sorted, LAMBDA e : ~Ge(e.riskReduction, last.riskReduction))
       IN  before \o <<last>> \o after

modelInterventionImpact(currentData, historicalData, interventions) ==
  LET impacts == SelectSeq([k \in 1..Len(interventions) |->
                              calculateInterventionImpact(interventions[k], currentData, historicalData)],
                           LAMBDA impact : Gt(impact.riskReduction, Frac(1, 10)))
  IN  SortByRiskReduction(impacts)

(***************************************************************************)
(* IntelligentAlertSystem.  Times are minutes since a local midnight: a     *)
(* timestamp is the minute at which an alert was built and Date.now() is    *)
(* the minute `now`.  A message is the record of the parts that its         *)
(* template interpolates; the relatedInsights of an alert are left out.     *)
(***************************************************************************)
\* prediction.type.replace('_', ' ').replace(/\b\w/g, l => l.toUpperCase()) + ' Risk'
PredictionTitle(type) ==
  IF type = "cardiac_event" THEN "Cardiac Event Risk"
  ELSE IF type = "hypertensive_crisis" THEN "Hypertensive Crisis Risk"
  ELSE "Respiratory Distress Risk"

PriorityOf(severity) ==
  IF severity = "critical" THEN "critical" ELSE IF severity = "high" THEN "high" ELSE "medium"

createPredictionAlert(prediction, context, id, now) ==
  [id |-> id,
   type |-> IF prediction.type = "cardiac_event" THEN "emergency" ELSE "health_episode",
   priority |-> PriorityOf(prediction.severity),
   title |-> PredictionTitle(prediction.type),
   message |-> [text |-> "AI predicts % chance of in",
                number |-> MathRound(Mul(prediction.probability, Num(100))),
                subject |-> prediction.type,
                timeframe |-> prediction.timeframe],
   timestamp |-> now,
   acknowledged |-> FALSE,
   actionRequired |-> PriorityOf(prediction.severity) \in {"critical", "high"},
   escalationPath |-> IF PriorityOf(prediction.severity) = "critical"
                      THEN <<"emergency_contacts", "professional_contacts">>
                      ELSE <<"professional_contacts">>]

createInsightAlert(insight, context, id, now) ==
  [id |-> id,
   type |-> "anomaly",
   priority |-> PriorityOf(insight.severity),
   title |-> insight.title,
   message |-> [text |-> "is significantly different from your baseline",
                number |-> insight.value,
                subject |-> insight.metric,
                timeframe |-> ""],
   timestamp |-> now,
   acknowledged |-> FALSE,
   actionRequired |-> PriorityOf(insight.severity) \in {"critical", "high"},
   escalationPath |-> IF PriorityOf(insight.severity) = "critical"
                      THEN <<"emergency_contacts", "professional_contacts">>
                      ELSE <<>>]

\* med.toLowerCase().includes(...) of one of the three suppression medications,
\* on the medications of the model
IsSuppressionMed(med) == med = "Beta-Blockers 50mg"

\* alert.title.toLowerCase().includes('blood pressure'), on the titles of the model
TitleHasBloodPressure(title) == title = "Blood Pressure Anomaly"

\* mutant: a critical blood pressure anomaly is suppressed by the medication too
shouldSuppressAlert_criticalToo(alert, context, now) ==
  IF /\ alert.type = "anomaly"
     /\ Len(context.currentMedications) > 0
     /\ \E k \in 1..Len(context.currentMedications) : IsSuppressionMed(context.currentMedications[k])
  THEN TitleHasBloodPressure(alert.title)
  ELSE Cardinality({k \in 1..Len(context.recentAlerts) :
                      /\ context.recentAlerts[k].type = alert.type
                      /\ context.recentAlerts[k].title = alert.title
                      /\ now - context.recentAlerts[k].timestamp < 2 * 60}) >= 2

shouldSuppressAlert(alert, context, now) ==
  IF /\ alert.type = "anomaly"
     /\ Len(context.currentMedications) > 0
     /\ \E k \in 1..Len(context.currentMedications) : IsSuppressionMed(context.currentMedications[k])
  THEN TitleHasBloodPressure(alert.title) /\ alert.priority # "critical"
  ELSE Cardinality({k \in 1..Len(context.recentAlerts) :
                      /\ context.recentAlerts[k].type = alert.type
                      /\ context.recentAlerts[k].title = alert.title
                      /\ now - context.recentAlerts[k].timestamp < 2 * 60}) >= 2

isDuplicateAlert(alert, context, now) ==
  \E k \in 1..Len(context.recentAlerts) :
    /\ context.recentAlerts[k].title = alert.title
    /\ context.recentAlerts[k].message = alert.message
    /\ now - context.recentAlerts[k].timestamp < 30

isInQuietHours(alert, context, now) ==
  IF alert.priority = "critical" \/ alert.type = "emergency" THEN FALSE
  ELSE LET currentTime == now % (24 * 60)
           quietStart == 22 * 60
           quietEnd == 7 * 60
       IN  IF quietStart > quietEnd
           THEN currentTime >= quietStart \/ currentTime <= quietEnd
           ELSE currentTime >= quietStart /\ currentTime <= quietEnd

passesContextualFilters(alert, context) ==
  IF (\E k \in 1..Len(context.stressFactors) : context.stressFactors[k] = "high_stress_period")
     /\ alert.priority = "low"
  THEN FALSE
  ELSE IF context.timeOfDay = "night" /\ alert.priority = "medium" /\ ~alert.actionRequired
  THEN FALSE
  ELSE TRUE

applyAlertFiltering(alerts, context, now) ==
  SelectSeq(alerts, LAMBDA alert :
    /\ ~shouldSuppressAlert(alert, context, now)
    /\ ~isDuplicateAlert(alert, context, now)
    /\ ~isInQuietHours(alert, context, now)
    /\ passesContextualFilters(alert, context))

PriorityScore(priority) ==
  IF priority = "critical" THEN 4 ELSE IF priority = "high" THEN 3
  ELSE IF priority = "medium" THEN 2 ELSE 1

\* the comparator of rankAlerts is negative or zero: a stays before b
StaysBefore(a, b) ==
  IF PriorityScore(b.priority) # PriorityScore(a.priority)
  THEN PriorityScore(b.priority) < PriorityScore(a.priority)
  ELSE IF a.actionRequired # b.actionRequired THEN ~b.actionRequired
  ELSE b.timestamp <= a.timestamp

\* alerts.sort(...): a stable sort
RECURSIVE rankAlerts(_, _)
rankAlerts(alerts, context) ==
  IF Len(alerts) <= 1 THEN alerts
  ELSE LET sorted == rankAlerts(SubSeq(alerts, 1, Len(alerts) - 1), context)
           last == alerts[Len(alerts)]
           before == SelectSeq(sorted, LAMBDA e : StaysBefore(e, last))
           after == SelectSeq(sorted, LAMBDA e : ~StaysBefore(e, last))
       IN  before \o <<last>> \o after

\* the alerts that prioritizeAlerts builds, before filtering; the k-th alert
\* built gets the fresh id firstId + k - 1
BuiltAlerts(insights, predictions, context, firstId, now) ==
  LET converted == SelectSeq(predictions, LAMBDA prediction : Gt(prediction.probability, Frac(3, 10)))
      severe == SelectSeq(insights, LAMBDA insight : insight.severity \in {"high", "critical"})
  IN  [k \in 1..Len(converted) |->
         createPredictionAlert(converted[k], context, firstId + k - 1, now)]
      \o
      [k \in 1..Len(severe) |->
         createInsightAlert(severe[k], context, firstId + Len(converted) + k - 1, now)]

prioritizeAlerts(insights, predictions, context, firstId, now) ==
  rankAlerts(applyAlertFiltering(BuiltAlerts(insights, predictions, context, firstId, now),
                                 context, now),
             context)

\* findAlert: where alertHistory (a map from a key to a sequence of alerts)
\* holds an alert with this id; the empty set stands for undefined
findAlert(alertHistory, alertId) ==
  {pos \in UNION {{<<key, k>> : k \in 1..Len(alertHistory[key])} : key \in DOMAIN alertHistory} :
     alertHistory[pos[1]][pos[2]].id = alertId}

\* alert.acknowledged = true on the object with this id, wherever it is held
Acknowledged(alerts, alertId) ==
  [k \in 1..Len(alerts) |->
     IF alerts[k].id = alertId THEN [alerts[k] EXCEPT !.acknowledged = TRUE] ELSE alerts[k]]

\* the alert system next to its surroundings: the private alertHistory, the
\* alerts that prioritizeAlerts handed to its caller, the timeouts that
\* escalateToProfessionals has scheduled, the professional notifications sent,
\* the calls of acknowledgeAlert so far, and the clock
NewAlertSystem(now) ==
  [alertHistory |-> <<>>, returned |-> <<>>, timeouts |-> {}, notifications |-> {},
   acknowledgeCalls |-> {}, now |-> now, started |-> now]

(***************************************************************************)
(* Inputs of the engine's API.                                             *)
(***************************************************************************)
Reading(hr, sys, dia, temp, o2, ts) ==
  [heartRate |-> hr, bloodPressure |-> [systolic |-> sys, diastolic |-> dia],
   temperature |-> temp, oxygenSat |-> o2, timestamp |-> ts]

PatientIds == {"1", "2"}

LowReading == Reading(Num(65), Num(110), Num(70), Frac(73, 2), Num(96), 0)

HighReading == Reading(Num(85), Num(130), Num(90), Frac(75, 2), Num(100), 0)

HistReadings == {LowReading, HighReading}

\* current readings: around the z = 2 and z = 3 thresholds of both the default
\* baseline and the baseline of <<LowReading, HighReading>>, above and below the mean
CurReadings ==
  {LowReading,
   Reading(Num(95),  Num(140), Num(85),  Frac(75, 2), Num(96), 0),
   Reading(Num(96),  Num(141), Num(90),  Num(38),     Num(95), 0),
   Reading(Num(105), Num(150), Num(100), Num(39),     Num(92), 0),
   Reading(Num(106), Num(89),  Num(110), Num(40),     Num(88), 0),
   Reading(Num(121), Num(181), Num(120), Num(41),     Num(85), 0)}

\* the history of length n that repeats the pattern p
Cycle(p, n) == [i \in 1..n |-> p[((i - 1) % Len(p)) + 1]]

\* histories: empty, one reading (std 0), a pair, three readings (irrational
\* std) and MaxPairs pairs (more than
\* the 10 readings that the correlation and the confidence look at)
Histories == {Cycle(<<LowReading, HighReading>>, n) : n \in {0, 1, 2, 3, 2 * MaxPairs}}

\* the histories handed to the analysis calls
AnalysisHistories == {h \in Histories : Len(h) \in {0, 2 * MaxPairs}}

\* a steady patient: the last five readings all equal r
SteadyHistory(r) == Cycle(<<r>>, 5)

\* five readings whose heart rate climbs away from the default mean
RisingHistory ==
  [i \in 1..5 |-> Reading(Num(75 + 15 * i), Num(120), Num(80), Num(37), Num(98), 0)]

\* the i-th value of a vital sign that follows a pattern; only the last ten
\* readings of a history decide the episode rules
VitalPattern(metric, p, i) ==
  IF metric = "heartRate"
  THEN (IF p = "flat" THEN 72
        ELSE IF p = "rising" THEN 60 + 6 * i
        ELSE IF p = "alternating" THEN 60 + 40 * (i % 2)
        ELSE IF p = "swinging" THEN 72 + 19 * (i % 2)
        ELSE 60 + 6 * i + 24 * (i % 2))
  ELSE IF metric = "systolic"
  THEN (IF p = "flat" THEN 120
        ELSE IF p = "rising" THEN 60 + 4 * i
        ELSE IF p = "high" THEN 150
        ELSE 100 + 4 * i)
  ELSE IF metric = "diastolic"
  THEN (IF p = "flat" THEN 80 ELSE 50 + 3 * i)
  ELSE (IF p = "flat" THEN 98
        ELSE IF p = "low" THEN 94
        ELSE IF p = "alternating" THEN 99 - 2 * (i % 2)
        ELSE IF i <= EpisodeMinimum - 10 THEN 99 ELSE 99 - 2 * (i - (EpisodeMinimum - 10)))

EpisodeHistory(hr, sys, dia, o2, n) ==
  [i \in 1..n |-> Reading(Num(VitalPattern("heartRate", hr, i)), Num(VitalPattern("systolic", sys, i)),
                          Num(VitalPattern("diastolic", dia, i)), Num(37),
                          Num(VitalPattern("oxygenSat", o2, i)), i)]

\* histories one reading short of, and exactly at, the minimum of predictHealthEpisodes
EpisodeHistories ==
  {EpisodeHistory(hr, sys, dia, o2, n) :
     hr \in {"flat", "rising", "alternating", "zigzag"},
     sys \in {"flat", "rising", "high", "risingHigh"},
     dia \in {"flat", "rising"},
     o2 \in {"flat", "low", "alternating", "falling"},
     n \in {EpisodeMinimum - 1, EpisodeMinimum}}

\* histories one reading short of, and exactly at, the minimum of
\* predictMultipleVitals: the heart rate ends flat, climbing or on a drop of 19
\* (the generator spreads the heart rate over 20)
ForecastHistories ==
  {EpisodeHistory(hr, "risingHigh", "flat", "flat", n) :
     hr \in {"flat", "rising", "swinging"}, n \in {9, 10}}

\* current readings for the intervention model: the lowest readings the
\* generator produces for patient 2 and for patient 1, a reading above them, low
\* readings on which every intervention passes, and readings on which
\* medication_adherence lands on the threshold
InterventionReadings ==
  {Reading(Num(70), Num(120), Num(80), Num(37), Num(97), 0),
   Reading(Num(85), Num(135), Num(85), Num(37), Num(97), 0),
   Reading(Num(105), Num(145), Num(90), Num(38), Num(100), 0),
   Reading(Num(20), Num(40), Num(30), Num(37), Num(97), 0),
   Reading(Num(50), Num(60), Num(50), Num(37), Num(97), 0),
   Reading(Num(72), Num(80), Num(60), Num(37), Num(97), 0)}

\* the interventions of the predictions panel, the same reversed, and a list
\* with an intervention missing from the table
InterventionLists ==
  {<<"exercise", "diet_modification", "stress_reduction", "medication_adherence">>,
   <<"medication_adherence", "stress_reduction", "diet_modification", "exercise">>,
   <<"lifestyle_change", "diet_modification", "medication_adherence">>}

\* the histories with a trend that accompany the current reading r
TrendHistories(r) == {SteadyHistory(r), RisingHistory}

\* heart rate and systolic pressure at the mean of every baseline of the model,
\* the other vitals far from it
OffVitalsReading == Reading(Num(75), Num(120), Num(120), Num(41), Num(85), 0)

\* the baseline maps an engine holds after no call or after one
\* updatePatientBaseline("1", h)
StoredBaselines ==
  {updatePatientBaseline(<<>>, "1", h).pb : h \in Histories}

(***************************************************************************)
(* The engine as a state machine: one action per public method.  call      *)
(* records the last call, its arguments and what it returned.              *)
(***************************************************************************)
\* currentUser when nobody is logged in (null)
NoUser == [id |-> "null"]

DashInit ==
  [currentData |-> LowReading,
   aiInsights |-> <<>>,
   aiRecommendations |-> <<>>,
   healthRiskScore |-> [overall |-> Num(0), cardiovascular |-> Num(0), respiratory |-> Num(0),
                        metabolic |-> Num(0), confidence |-> Num(0), trend |-> "stable"],
   heartRatePrediction |-> [value |-> Num(0), confidence |-> Num(0)],
   anomalies |-> <<>>]

Init ==
  /\ patientBaselines = <<>>
  /\ call = [op |-> "none"]
  /\ chartData = <<>>
  /\ selectedPatient = "null"
  /\ dash = DashInit
  /\ ticks = 0
  /\ currentUser = NoUser
  /\ route = "/"
  /\ mounted = FALSE
  /\ timers = <<>>
  /\ effectDeps = "none"
  /\ alertSystem = NewAlertSystem(0)

CallUpdatePatientBaseline ==
  \E patientId \in PatientIds, data \in Histories :
    LET r == updatePatientBaseline(patientBaselines, patientId, data)
    IN  /\ patientBaselines' = r.pb
        /\ call' = [op |-> "updatePatientBaseline", patientId |-> patientId, data |-> data,
                    ret |-> r.ret]
        /\ UNCHANGED <<chartData, selectedPatient, dash, ticks, appVars>>

CallDetectAnomalies ==
  \E patientId \in PatientIds, currentData \in CurReadings, historicalData \in AnalysisHistories :
    /\ call' = [op |-> "detectAnomalies", patientId |-> patientId, currentData |-> currentData,
                historicalData |-> historicalData,
                ret |-> detectAnomalies(patientBaselines, patientId, currentData, historicalData)]
    /\ UNCHANGED <<patientBaselines, chartData, selectedPatient, dash, ticks, appVars>>

CallCalculateHealthRiskScore ==
  \E patientId \in PatientIds, currentData \in CurReadings, historicalData \in AnalysisHistories :
    /\ call' = [op |-> "calculateHealthRiskScore", patientId |-> patientId,
                currentData |-> currentData, historicalData |-> historicalData,
                ret |-> calculateHealthRiskScore(patientBaselines, patientId, currentData, historicalData)]
    /\ UNCHANGED <<patientBaselines, chartData, selectedPatient, dash, ticks, appVars>>

\* predictNextValue on the engine: no history, and a short climbing series
EnginePredictNextValue ==
  \E data \in {<<>>, <<Num(70), Num(72), Num(75)>>} :
    /\ call' = [op |-> "predictNextValue", data |-> data, periods |-> 1,
                ret |-> predictNextValue(data, 1)]
    /\ UNCHANGED <<patientBaselines, chartData, selectedPatient, dash, ticks, appVars>>

\* generateRecommendations on the engine, fed with the risk score and the
\* insights of the same reading as the dashboard does
EngineGenerateRecommendations ==
  \E patientId \in PatientIds, currentData \in {LowReading, OffVitalsReading} :
    /\ call' = [op |-> "generateRecommendations", patientId |-> patientId,
                currentData |-> currentData,
                ret |-> generateRecommendations(patientId, currentData,
                          calculateHealthRiskScore(patientBaselines, patientId, currentData, <<>>),
                          detectAnomalies(patientBaselines, patientId, currentData, <<>>))]
    /\ UNCHANGED <<patientBaselines, chartData, selectedPatient, dash, ticks, appVars>>

Next ==
  \/ CallUpdatePatientBaseline
  \/ CallDetectAnomalies
  \/ CallCalculateHealthRiskScore
  \/ EnginePredictNextValue
  \/ EngineGenerateRecommendations

Spec == Init /\ [][Next]_vars


(***************************************************************************)
(* The pure functions of the engine: the initial state holds the arguments *)
(* of one call and the action applies the function to them.                *)
(***************************************************************************)
ZValues == {Num(44), Num(65), Num(75), Num(96), Num(106), Frac(73, 2)}

ZMeans == {Num(75), Num(120), Num(37), Frac(215, 3)}

ZStds == {Num(0), Num(10), Num(15), Frac(1, 2)}

SeriesValues == {Num(0), Num(70), Num(72), Frac(197, 2)}

Series == UNION {[1..n -> SeriesValues] : n \in 0..MaxSeries}

CorrValues == {Num(70), Num(73), Num(75)}

\* every sequence of at most MaxCorrLen values, and the constant sequences of
\* at most MaxFlatLen values
CorrSeries ==
  UNION {[1..n -> CorrValues] : n \in 0..MaxCorrLen}
  \cup {[i \in 1..n |-> c] : n \in 1..MaxFlatLen, c \in CorrValues}

PureInputs ==
  {[op |-> "args", fn |-> "calculateZScore", value |-> v, mean |-> m, std |-> sd] :
      v \in ZValues, m \in ZMeans, sd \in ZStds}
  \cup
  {[op |-> "args", fn |-> "predictNextValue", data |-> d, periods |-> k] :
      d \in Series, k \in 1..MaxPeriods}
  \cup
  {[op |-> "args", fn |-> "calculateStandardDeviation", data |-> d] : d \in Series}
  \cup
  {[op |-> "args", fn |-> f, arithmetic |-> a, x |-> x, y |-> y] :
      f \in {"calculateCorrelation", "pearsonCorrelation"}, a \in {"exact", "rounded"},
      x \in CorrSeries, y \in CorrSeries}
  \cup
  {[op |-> "args", fn |-> "detectAnomalies", baselines |-> pb, patientId |-> id,
    currentData |-> r, historicalData |-> h] :
      pb \in StoredBaselines, id \in PatientIds, r \in CurReadings \cup {OffVitalsReading},
      h \in AnalysisHistories}
  \cup
  UNION {{[op |-> "args", fn |-> "calculateHealthRiskScore", baselines |-> pb, patientId |-> id,
           currentData |-> r, historicalData |-> h] :
            pb \in StoredBaselines, id \in PatientIds, h \in TrendHistories(r)} : r \in CurReadings}
  \cup
  {[op |-> "args", fn |-> "predictHealthEpisodes", patientId |-> "1", historicalData |-> h] :
      h \in EpisodeHistories}
  \cup
  {[op |-> "args", fn |-> "predictMultipleVitals", historicalData |-> h, periods |-> k] :
      h \in ForecastHistories, k \in {1, 6, MaxForecast}}
  \cup
  {[op |-> "args", fn |-> "modelInterventionImpact", currentData |-> r, historicalData |-> <<>>,
    interventions |-> l] :
      r \in InterventionReadings, l \in InterventionLists}

PureInit ==
  /\ call \in PureInputs
  /\ patientBaselines = IF call.fn \in {"detectAnomalies", "calculateHealthRiskScore"}
                        THEN call.baselines ELSE <<>>
  /\ chartData = <<>>
  /\ selectedPatient = "null"
  /\ dash = DashInit
  /\ ticks = 0
  /\ currentUser = NoUser
  /\ route = "/"
  /\ mounted = FALSE
  /\ timers = <<>>
  /\ effectDeps = "none"
  /\ alertSystem = NewAlertSystem(0)

CallCalculateZScore ==
  /\ call.op = "args"
  /\ call.fn = "calculateZScore"
  /\ call' = [op |-> "calculateZScore", value |-> call.value, mean |-> call.mean, std |-> call.std,
              ret |-> calculateZScore(call.value, call.mean, call.std)]
  /\ UNCHANGED <<patientBaselines, chartData, selectedPatient, dash, ticks, appVars>>

CallPredictNextValue ==
  /\ call.op = "args"
  /\ call.fn = "predictNextValue"
  /\ call' = [op |-> "predictNextValue", data |-> call.data, periods |-> call.periods,
              ret |-> predictNextValue(call.data, call.periods)]
  /\ UNCHANGED <<patientBaselines, chartData, selectedPatient, dash, ticks, appVars>>

CallCalculateStandardDeviation ==
  /\ call.op = "args"
  /\ call.fn = "calculateStandardDeviation"
  /\ call' = [op |-> "calculateStandardDeviation", data |-> call.data,
              ret |-> calculateStandardDeviation(call.data)]
  /\ UNCHANGED <<patientBaselines, chartData, selectedPatient, dash, ticks, appVars>>

CallCalculateCorrelation ==
  /\ call.op = "args"
  /\ call.fn = "calculateCorrelation"
  /\ call' = [op |-> "calculateCorrelation", arithmetic |-> call.arithmetic, x |-> call.x, y |-> call.y,
              ret |-> IF call.arithmetic = "exact" THEN calculateCorrelation(call.x, call.y)
                      ELSE calculateCorrelationRounded(call.x, call.y)]
  /\ UNCHANGED <<patientBaselines, chartData, selectedPatient, dash, ticks, appVars>>

CallPearsonCorrelation ==
  /\ call.op = "args"
  /\ call.fn = "pearsonCorrelation"
  /\ call' = [op |-> "pearsonCorrelation", arithmetic |-> call.arithmetic, x |-> call.x, y |-> call.y,
              ret |-> IF call.arithmetic = "exact" THEN pearsonCorrelation(call.x, call.y)
                      ELSE pearsonCorrelationRounded(call.x, call.y)]
  /\ UNCHANGED <<patientBaselines, chartData, selectedPatient, dash, ticks, appVars>>

ApplyDetectAnomalies ==
  /\ call.op = "args"
  /\ call.fn = "detectAnomalies"
  /\ call' = [op |-> "detectAnomalies", patientId |-> call.patientId,
              currentData |-> call.currentData, historicalData |-> call.historicalData,
              ret |-> detectAnomalies(patientBaselines, call.patientId,
                                      call.currentData, call.historicalData)]
  /\ UNCHANGED <<patientBaselines, chartData, selectedPatient, dash, ticks, appVars>>

ApplyCalculateHealthRiskScore ==
  /\ call.op = "args"
  /\ call.fn = "calculateHealthRiskScore"
  /\ call' = [op |-> "calculateHealthRiskScore", patientId |-> call.patientId,
              currentData |-> call.currentData, historicalData |-> call.historicalData,
              ret |-> calculateHealthRiskScore(patientBaselines, call.patientId,
                                               call.currentData, call.historicalData)]
  /\ UNCHANGED <<patientBaselines, chartData, selectedPatient, dash, ticks, appVars>>

CallPredictHealthEpisodes ==
  /\ call.op = "args"
  /\ call.fn = "predictHealthEpisodes"
  /\ call' = [op |-> "predictHealthEpisodes", patientId |-> call.patientId,
              historicalData |-> call.historicalData,
              ret |-> predictHealthEpisodes(call.patientId, call.historicalData)]
  /\ UNCHANGED <<patientBaselines, chartData, selectedPatient, dash, ticks, appVars>>

CallPredictMultipleVitals ==
  /\ call.op = "args"
  /\ call.fn = "predictMultipleVitals"
  /\ call' = [op |-> "predictMultipleVitals", historicalData |-> call.historicalData,
              periods |-> call.periods,
              ret |-> predictMultipleVitals(call.historicalData, call.periods)]
  /\ UNCHANGED <<patientBaselines, chartData, selectedPatient, dash, ticks, appVars>>

CallModelInterventionImpact ==
  /\ call.op = "args"
  /\ call.fn = "modelInterventionImpact"
  /\ call' = [op |-> "modelInterventionImpact", currentData |-> call.currentData,
              historicalData |-> call.historicalData, interventions |-> call.interventions,
              ret |-> modelInterventionImpact(call.currentData, call.historicalData,
                                              call.interventions)]
  /\ UNCHANGED <<patientBaselines, chartData, selectedPatient, dash, ticks, appVars>>

PureNext ==
  \/ CallCalculateZScore
  \/ CallPredictNextValue
  \/ CallCalculateStandardDeviation
  \/ CallCalculateCorrelation
  \/ CallPearsonCorrelation
  \/ ApplyDetectAnomalies
  \/ ApplyCalculateHealthRiskScore
  \/ CallPredictHealthEpisodes
  \/ CallPredictMultipleVitals
  \/ CallModelInterventionImpact

PureSpec == PureInit /\ [][PureNext]_vars

(***************************************************************************)
(* The HealthDashboard component: the reading generator, the history       *)
(* window chartData and the interval callback.  ticks is the time of the   *)
(* last tick, which stamps the reading generated at that tick.             *)
(***************************************************************************)
WindowCapacity == 20

\* mockPatients[id].riskLevel
RiskLevelOf(patient) ==
  IF patient = "1" THEN "high" ELSE IF patient = "2" THEN "medium" ELSE "low"

\* Math.random() of one tick; the same draw r is used for every vital
RandomDraws == {Num(0), Frac(1, 20)}

\* Math.floor of a non-negative number
MathFloor(x) == IF x[2] = 0 THEN x ELSE Num(x[1] \div x[2])

\* timestamp is the wall-clock time of the call; successive ticks are seconds
\* apart, so the reading of tick t carries the time t
generateMockData(patientId, r, now) ==
  LET baseHR == IF patientId = "1" THEN 85 ELSE IF patientId = "2" THEN 70 ELSE 72
      baseBP == IF patientId = "1" THEN [systolic |-> 135, diastolic |-> 85]
                ELSE [systolic |-> 120, diastolic |-> 80]
      baseTemp == 37
  IN  [heartRate |-> Add(Num(baseHR), Mul(r, Num(20))),
       bloodPressure |-> [systolic |-> Add(Num(baseBP.systolic), Mul(r, Num(10))),
                          diastolic |-> Add(Num(baseBP.diastolic), Mul(r, Num(5)))],
       temperature |-> Add(Num(baseTemp), Mul(r, Frac(11, 10))),
       oxygenSat |-> Add(Num(97), Mul(r, Num(3))),
       steps |-> MathFloor(Add(Num(8000), Mul(r, Num(4000)))),
       timestamp |-> now]

\* mutant: the window keeps its first readings instead of its last
AppendToWindow_keepFirst(prev, newData) ==
  LET all == Append(prev, newData)
  IN  IF Len(all) <= WindowCapacity THEN all ELSE SubSeq(all, 1, WindowCapacity)

\* [...prev, newData].slice(-20)
AppendToWindow(prev, newData) == SliceLast(Append(prev, newData), WindowCapacity)

\* the legacy threshold alerts of the callback
LegacyAnomalies(newData, isHighRisk) ==
  (IF Gt(newData.heartRate, Num(IF isHighRisk THEN 90 ELSE 100))
   THEN <<"Elevated heart rate detected">> ELSE <<>>)
  \o
  (IF Gt(newData.bloodPressure.systolic, Num(IF isHighRisk THEN 130 ELSE 140))
   THEN <<"High blood pressure alert">> ELSE <<>>)
  \o
  (IF Gt(newData.temperature, Num(38)) THEN <<"Fever detected">> ELSE <<>>)

SpikesIn(window) == Cardinality({i \in 1..Len(window) : window[i].steps # Num(8000)})

\* patient?.id of a patient object or null
IdOf(patient) == IF patient = "null" THEN "undefined" ELSE patient

\* selectedPatient?.id
SelectedId == IdOf(selectedPatient)

\* mutant: the analysis reads the baselines as they were before this tick
Tick_staleBaseline ==
  /\ ticks < MaxTicks
  /\ \E t \in 1..Len(timers) :
     \E captured \in {timers[t]} :
     \E r \in RandomDraws :
     (ticks < QuietTicks => r = Num(0)) /\
     \E newData \in {generateMockData(IdOf(captured), r, ticks + 1)} :
     \E updated \in {AppendToWindow(chartData, newData)} :
     SpikesIn(updated) <= MaxSpikes /\
     \E patientId \in {IF captured = "null" THEN "default" ELSE captured} :
     \E upd \in {updatePatientBaseline(patientBaselines, patientId, updated)} :
     \E insights \in {detectAnomalies(patientBaselines, patientId, newData, updated)} :
     \E riskScore \in {calculateHealthRiskScore(patientBaselines, patientId, newData, updated)} :
     \E recommendations \in {generateRecommendations(patientId, newData, riskScore, insights)} :
       /\ ticks' = ticks + 1
       /\ chartData' = updated
       /\ patientBaselines' = upd.pb
       /\ dash' = [currentData |-> newData,
                   aiInsights |-> insights,
                   aiRecommendations |-> recommendations,
                   healthRiskScore |-> riskScore,
                   heartRatePrediction |->
                     IF Len(updated) >= 5
                     THEN LET hrPrediction == predictNextValue(MapSeq(LAMBDA d : d.heartRate, updated), 1)
                          IN  [value |-> hrPrediction.prediction, confidence |-> hrPrediction.confidence]
                     ELSE dash.heartRatePrediction,
                   anomalies |-> LegacyAnomalies(newData, captured # "null"
                                                          /\ RiskLevelOf(captured) = "high")]
       /\ UNCHANGED <<call, selectedPatient, appVars>>

\* mutant: the callback drops an insight that the previous tick showed already
Tick_debounced ==
  /\ ticks < MaxTicks
  /\ \E t \in 1..Len(timers) :
     \E captured \in {timers[t]} :
     \E r \in RandomDraws :
     (ticks < QuietTicks => r = Num(0)) /\
     \E newData \in {generateMockData(IdOf(captured), r, ticks + 1)} :
     \E updated \in {AppendToWindow(chartData, newData)} :
     SpikesIn(updated) <= MaxSpikes /\
     \E patientId \in {IF captured = "null" THEN "default" ELSE captured} :
     \E upd \in {updatePatientBaseline(patientBaselines, patientId, updated)} :
     \E detected \in {detectAnomalies(upd.pb, patientId, newData, updated)} :
     \E insights \in {SelectSeq(detected,
                                LAMBDA i : \A j \in 1..Len(dash.aiInsights) :
                                              dash.aiInsights[j].title # i.title)} :
     \E riskScore \in {calculateHealthRiskScore(upd.pb, patientId, newData, updated)} :
     \E recommendations \in {generateRecommendations(patientId, newData, riskScore, insights)} :
       /\ ticks' = ticks + 1
       /\ chartData' = updated
       /\ patientBaselines' = upd.pb
       /\ dash' = [currentData |-> newData,
                   aiInsights |-> insights,
                   aiRecommendations |-> recommendations,
                   healthRiskScore |-> riskScore,
                   heartRatePrediction |->
                     IF Len(updated) >= 5
                     THEN LET hrPrediction == predictNextValue(MapSeq(LAMBDA d : d.heartRate, updated), 1)
                          IN  [value |-> hrPrediction.prediction, confidence |-> hrPrediction.confidence]
                     ELSE dash.heartRatePrediction,
                   anomalies |-> LegacyAnomalies(newData, captured # "null"
                                                          /\ RiskLevelOf(captured) = "high")]
       /\ UNCHANGED <<call, selectedPatient, appVars>>

\* one firing of the interval callback of a running timer; the callback reads
\* the selectedPatient of the render that created its timer, and each const of
\* the callback is bound once, in the order the callback computes it.  The
\* draws of the first `quiet` ticks are 0 and a window holds at most
\* MaxSpikes other draws.
TickFrom(quiet) ==
  /\ ticks < MaxTicks
  /\ \E t \in 1..Len(timers) :
     \E captured \in {timers[t]} :
     \E r \in RandomDraws :
     (ticks < quiet => r = Num(0)) /\
     \E newData \in {generateMockData(IdOf(captured), r, ticks + 1)} :
     \E updated \in {AppendToWindow(chartData, newData)} :
     SpikesIn(updated) <= MaxSpikes /\
     \E patientId \in {IF captured = "null" THEN "default" ELSE captured} :
     \E upd \in {updatePatientBaseline(patientBaselines, patientId, updated)} :
     \E insights \in {detectAnomalies(upd.pb, patientId, newData, updated)} :
     \E riskScore \in {calculateHealthRiskScore(upd.pb, patientId, newData, updated)} :
     \E recommendations \in {generateRecommendations(patientId, newData, riskScore, insights)} :
       /\ ticks' = ticks + 1
       /\ chartData' = updated
       /\ patientBaselines' = upd.pb
       /\ dash' = [currentData |-> newData,
                   aiInsights |-> insights,
                   aiRecommendations |-> recommendations,
                   healthRiskScore |-> riskScore,
                   heartRatePrediction |->
                     IF Len(updated) >= 5
                     THEN LET hrPrediction == predictNextValue(MapSeq(LAMBDA d : d.heartRate, updated), 1)
                          IN  [value |-> hrPrediction.prediction, confidence |-> hrPrediction.confidence]
                     ELSE dash.heartRatePrediction,
                   anomalies |-> LegacyAnomalies(newData, captured # "null"
                                                          /\ RiskLevelOf(captured) = "high")]
       /\ UNCHANGED <<call, selectedPatient, appVars>>

\* a tick of a dashboard whose first QuietTicks draws are 0
Tick == TickFrom(QuietTicks)

\* a user object as login builds it
User(role, email) == [id |-> "1", role |-> role, email |-> email]

\* a dashboard that has mounted and run its effect: for a patient at "/", or
\* for a professional who opened "/patient" without selecting a patient
DashboardInit ==
  /\ patientBaselines = <<>>
  /\ call = [op |-> "none"]
  /\ chartData = <<>>
  /\ selectedPatient \in {"null", "1"}
  /\ dash = [DashInit EXCEPT !.currentData = generateMockData(SelectedId, Num(0), 0)]
  /\ ticks = 0
  /\ currentUser = IF selectedPatient = "null" THEN User("professional", "nurse@clinic.org")
                   ELSE User("patient", "nurse@clinic.org")
  /\ route = IF selectedPatient = "null" THEN "/patient" ELSE "/"
  /\ mounted = TRUE
  /\ timers = <<selectedPatient>>
  /\ effectDeps = selectedPatient
  /\ alertSystem = NewAlertSystem(0)

DashboardNext == Tick

DashboardSpec == DashboardInit /\ [][DashboardNext]_vars

\* the first ticks of a dashboard, with every draw free from the first one on
EarlyTick == ticks < MaxEarlyTicks /\ TickFrom(0)

EarlySpec == DashboardInit /\ [][EarlyTick]_vars

(***************************************************************************)
(* The application around the dashboard: UserContext (login, logout, the   *)
(* selected patient), the routes of App and the life cycle of the          *)
(* HealthDashboard component with its tick effect.                         *)
(***************************************************************************)
\* what the login form can hold when it is submitted
Emails == {"", "nurse@clinic.org"}

Passwords == {"", "secret"}

Roles == {"patient", "professional"}

\* the ids of mockPatients, in the order of the array
MockPatients == <<"1", "2", "3">>

\* mutant: login looks at the email alone
login_emailOnly(user, patient, email, password, role) ==
  IF email # ""
  THEN [ret |-> TRUE,
        currentUser |-> User(role, email),
        selectedPatient |-> IF role = "patient" THEN MockPatients[1] ELSE patient]
  ELSE [ret |-> FALSE, currentUser |-> user, selectedPatient |-> patient]

\* login: the value returned and the state of the context after the call;
\* a string is truthy exactly when it is not empty.  The name of the user (line
\* 78) plays no part in the model.
login(user, patient, email, password, role) ==
  IF email # "" /\ password # ""
  THEN [ret |-> TRUE,
        currentUser |-> User(role, email),
        selectedPatient |-> IF role = "patient" THEN MockPatients[1] ELSE patient]
  ELSE [ret |-> FALSE, currentUser |-> user, selectedPatient |-> patient]

\* mutant: /professional renders the professional dashboard for every user
View_roleBlind(location, user) ==
  IF user = NoUser THEN "LoginForm"
  ELSE IF location = "/patient" THEN "HealthDashboard"
  ELSE IF location = "/professional" \/ user.role = "professional" THEN "ProfessionalDashboard"
  ELSE "HealthDashboard"

\* the component the routes of App render at a location for a user
View(location, user) ==
  IF user = NoUser THEN "LoginForm"
  ELSE IF location = "/patient" THEN "HealthDashboard"
  ELSE IF user.role = "professional" THEN "ProfessionalDashboard"
  ELSE "HealthDashboard"

\* mutant: the cleanup of the effect leaves its timer running
ClearInterval_leaves(running, deps) == running

\* the cleanup of the tick effect: clearInterval of the timer that the last run
\* of the effect started, which is the last one added
ClearInterval(running, deps) ==
  IF deps = "none" \/ Len(running) = 0 THEN running
  ELSE SubSeq(running, 1, Len(running) - 1)

\* the commit after the user, the patient or the location changed: a
\* HealthDashboard that leaves the tree runs the cleanup of its effect and its
\* state is gone, one that enters the tree starts from its useState
\* initialisers with a new engine
Commit(location, user, patient) ==
  IF mounted /\ View(location, user) = "HealthDashboard"
  THEN UNCHANGED <<mounted, timers, effectDeps, chartData, patientBaselines, dash>>
  ELSE IF View(location, user) = "HealthDashboard"
  THEN /\ mounted' = TRUE
       /\ timers' = timers
       /\ effectDeps' = "none"
       /\ chartData' = <<>>
       /\ patientBaselines' = <<>>
       /\ \E r \in RandomDraws :
            /\ ticks < QuietTicks => r = Num(0)
            /\ dash' = [DashInit EXCEPT !.currentData = generateMockData(IdOf(patient), r, ticks)]
  ELSE /\ mounted' = FALSE
       /\ timers' = ClearInterval(timers, effectDeps)
       /\ effectDeps' = "none"
       /\ chartData' = <<>>
       /\ patientBaselines' = <<>>
       /\ dash' = DashInit

\* LoginForm.handleSubmit
Login ==
  /\ View(route, currentUser) = "LoginForm"
  /\ \E email \in Emails, password \in Passwords, role \in Roles :
     \E r \in {login(currentUser, selectedPatient, email, password, role)} :
       /\ call' = [op |-> "login", email |-> email, password |-> password, role |-> role,
                   ret |-> r.ret]
       /\ currentUser' = r.currentUser
       /\ selectedPatient' = r.selectedPatient
       /\ Commit(route, r.currentUser, r.selectedPatient)
       /\ UNCHANGED <<route, ticks, alertSystem>>

\* mutant: logout clears the user and keeps the selected patient
Logout_keepsPatient ==
  /\ currentUser # NoUser
  /\ call' = [op |-> "logout"]
  /\ currentUser' = NoUser
  /\ selectedPatient' = selectedPatient
  /\ route' = "/"
  /\ Commit("/", NoUser, selectedPatient)
  /\ UNCHANGED <<ticks, alertSystem>>

\* handleLogout of either dashboard: logout(), then navigate('/')
Logout ==
  /\ currentUser # NoUser
  /\ call' = [op |-> "logout"]
  /\ currentUser' = NoUser
  /\ selectedPatient' = "null"
  /\ route' = "/"
  /\ Commit("/", NoUser, "null")
  /\ UNCHANGED <<ticks, alertSystem>>

\* ProfessionalDashboard.handleViewPatient
ViewPatient ==
  /\ View(route, currentUser) = "ProfessionalDashboard"
  /\ \E patientId \in PatientIds :
       /\ selectedPatient' = patientId
       /\ route' = "/patient"
       /\ Commit("/patient", currentUser, patientId)
  /\ UNCHANGED <<call, currentUser, ticks, alertSystem>>

\* HealthDashboard.handleBackToProfessional
BackToProfessional ==
  /\ mounted
  /\ currentUser.role = "professional"
  /\ route' = "/professional"
  /\ Commit("/professional", currentUser, selectedPatient)
  /\ UNCHANGED <<call, currentUser, selectedPatient, ticks, alertSystem>>

\* PatientSelector.handlePatientChange; the selector is rendered for a
\* professional once a patient is selected
ChangePatient ==
  /\ mounted
  /\ currentUser.role = "professional"
  /\ selectedPatient # "null"
  /\ \E patientId \in PatientIds : selectedPatient' = patientId
  /\ UNCHANGED <<patientBaselines, call, chartData, dash, ticks, appVars>>

\* the tick effect runs after the first render and after every render in which
\* selectedPatient?.id or selectedPatient?.riskLevel changed: the cleanup of
\* the previous run first, then setInterval with a callback that closes over
\* the selectedPatient of this render
RunEffects ==
  /\ mounted
  /\ effectDeps # selectedPatient
  /\ timers' = Append(ClearInterval(timers, effectDeps), selectedPatient)
  /\ effectDeps' = selectedPatient
  /\ UNCHANGED <<patientBaselines, call, chartData, selectedPatient, dash, ticks,
                 currentUser, route, mounted, alertSystem>>

\* the application after a page load at one of its locations
SessionInit ==
  /\ patientBaselines = <<>>
  /\ call = [op |-> "none"]
  /\ chartData = <<>>
  /\ selectedPatient = "null"
  /\ dash = DashInit
  /\ ticks = 0
  /\ currentUser = NoUser
  /\ route \in {"/", "/professional", "/patient"}
  /\ mounted = FALSE
  /\ timers = <<>>
  /\ effectDeps = "none"
  /\ alertSystem = NewAlertSystem(0)

\* a tick of the dashboard within the first MaxSessionTicks ticks of the clock
SessionTick == ticks < MaxSessionTicks /\ Tick

SessionNext ==
  \/ Login
  \/ Logout
  \/ ViewPatient
  \/ BackToProfessional
  \/ ChangePatient
  \/ RunEffects
  \/ SessionTick

SessionSpec == SessionInit /\ [][SessionNext]_vars

(***************************************************************************)
(* The alert system as a state machine: prioritizeAlerts (once),           *)
(* escalateToProfessionals and acknowledgeAlert on the alerts it returned,  *)
(* the clock in steps of ClockStep minutes and the timeouts that come due.  *)
(***************************************************************************)
ClockStep == 15

\* the insights handed to prioritizeAlerts: none, a critical blood pressure
\* anomaly, and two high anomalies
AlertInsights ==
  {<<>>,
   <<AnomalyInsight("Blood Pressure Anomaly", "bloodPressure", Num(181), Num(4))>>,
   <<AnomalyInsight("Blood Pressure Anomaly", "bloodPressure", Num(150), Frac(5, 2)),
     AnomalyInsight("Heart Rate Anomaly", "heartRate", Num(106), Frac(5, 2))>>}

\* the predictions handed to prioritizeAlerts: none, a cardiac event (high),
\* a critical hypertensive crisis next to a respiratory episode at the
\* conversion threshold, and a respiratory episode above it
AlertPredictions ==
  {<<>>,
   <<EpisodePrediction("cardiac_event",
       [probability |-> Frac(7, 10), confidence |-> Num(75), triggers |-> <<>>],
       "6-12 hours", "high")>>,
   <<EpisodePrediction("hypertensive_crisis",
       [probability |-> Frac(9, 10), confidence |-> Num(85), triggers |-> <<>>],
       "3-8 hours", "critical"),
     EpisodePrediction("respiratory_distress",
       [probability |-> Frac(3, 10), confidence |-> Num(40), triggers |-> <<>>],
       "4-10 hours", "medium")>>,
   <<EpisodePrediction("respiratory_distress",
       [probability |-> Frac(4, 10), confidence |-> Num(60), triggers |-> <<>>],
       "4-10 hours", "medium")>>}

\* an alert of context.recentAlerts that repeats the critical hypertensive
\* alert (same message or another probability) or the critical blood
\* pressure anomaly (another reading), built `age` minutes before now
RecentAlert(kind, percent, now, age) ==
  IF kind = "hypertensive"
  THEN [createPredictionAlert(
          EpisodePrediction("hypertensive_crisis",
            [probability |-> Frac(percent, 100), confidence |-> Num(85), triggers |-> <<>>],
            "3-8 hours", "critical"), <<>>, 0, now - age) EXCEPT !.acknowledged = TRUE]
  ELSE [createInsightAlert(
          AnomalyInsight("Blood Pressure Anomaly", "bloodPressure", Num(percent), Num(4)),
          <<>>, 0, now - age) EXCEPT !.acknowledged = TRUE]

RecentAlertLists(now) ==
  {<<>>,
   <<RecentAlert("hypertensive", 90, now, 10)>>,
   <<RecentAlert("hypertensive", 90, now, 30)>>,
   <<RecentAlert("hypertensive", 80, now, 100), RecentAlert("hypertensive", 70, now, 119)>>,
   <<RecentAlert("hypertensive", 80, now, 100), RecentAlert("hypertensive", 70, now, 120)>>,
   <<RecentAlert("anomaly", 170, now, 10), RecentAlert("anomaly", 175, now, 20)>>}

AlertContexts(now) ==
  {[patientId |-> "1", currentMedications |-> meds, recentAlerts |-> recent,
    stressFactors |-> stress, timeOfDay |-> timeOfDay] :
     meds \in {<<>>, <<"Aspirin", "Beta-Blockers 50mg">>},
     recent \in RecentAlertLists(now),
     stress \in {<<>>, <<"high_stress_period">>},
     timeOfDay \in {"morning", "night"}}

\* a new alert system at ten in the morning or at eleven at night
AlertInit ==
  /\ patientBaselines = <<>>
  /\ call = [op |-> "none"]
  /\ chartData = <<>>
  /\ selectedPatient = "null"
  /\ dash = DashInit
  /\ ticks = 0
  /\ currentUser = NoUser
  /\ route = "/"
  /\ mounted = FALSE
  /\ timers = <<>>
  /\ effectDeps = "none"
  /\ alertSystem \in {NewAlertSystem(10 * 60), NewAlertSystem(23 * 60)}

AlertFrame == UNCHANGED <<patientBaselines, chartData, selectedPatient, dash, ticks,
                          currentUser, route, mounted, timers, effectDeps>>

PrioritizeAlerts ==
  /\ alertSystem.returned = <<>>
  /\ call.op = "none"
  /\ \E insights \in AlertInsights, predictions \in AlertPredictions,
        context \in AlertContexts(alertSystem.now) :
     \E ret \in {prioritizeAlerts(insights, predictions, context, 1, alertSystem.now)} :
       /\ call' = [op |-> "prioritizeAlerts", insights |-> insights, predictions |-> predictions,
                   context |-> context, now |-> alertSystem.now, ret |-> ret]
       /\ alertSystem' = [alertSystem EXCEPT !.returned = ret]
  /\ AlertFrame

\* escalateToProfessionals on an alert that was returned, once per alert
EscalateToProfessionals ==
  /\ \E k \in 1..Len(alertSystem.returned) :
     \E alert \in {alertSystem.returned[k]} :
       /\ \A t \in alertSystem.timeouts : t.alertId # alert.id
       /\ \A n \in alertSystem.notifications : n.alertId # alert.id
       /\ alert.priority \in {"critical", "high"} \/ alert.type = "emergency"
       /\ call' = [op |-> "escalateToProfessionals", alertId |-> alert.id]
       /\ alertSystem' =
            IF alert.priority = "critical" \/ alert.type = "emergency"
            THEN [alertSystem EXCEPT !.notifications =
                    @ \cup {[alertId |-> alert.id, urgency |-> "immediate", at |-> alertSystem.now]}]
            ELSE IF alert.priority = "high" /\ alert.actionRequired
            THEN [alertSystem EXCEPT !.timeouts =
                    @ \cup {[alertId |-> alert.id, due |-> alertSystem.now + 30]}]
            ELSE alertSystem
  /\ AlertFrame

\* acknowledgeAlert with the id of a returned alert, once per alert
AcknowledgeAlert ==
  /\ \E k \in 1..Len(alertSystem.returned) :
     \E alertId \in {alertSystem.returned[k].id} :
       /\ \A c \in alertSystem.acknowledgeCalls : c.alertId # alertId
       /\ call' = [op |-> "acknowledgeAlert", alertId |-> alertId]
       /\ alertSystem' =
            IF findAlert(alertSystem.alertHistory, alertId) # {}
            THEN [alertSystem EXCEPT
                    !.alertHistory = [key \in DOMAIN @ |-> Acknowledged(@[key], alertId)],
                    !.returned = Acknowledged(@, alertId),
                    !.acknowledgeCalls = @ \cup {[alertId |-> alertId, at |-> alertSystem.now]}]
            ELSE [alertSystem EXCEPT
                    !.acknowledgeCalls = @ \cup {[alertId |-> alertId, at |-> alertSystem.now]}]
  /\ AlertFrame

\* the callback of a timeout that has come due
TimeoutFires ==
  /\ \E t \in alertSystem.timeouts :
       /\ t.due <= alertSystem.now
       /\ alertSystem' =
            [alertSystem EXCEPT
               !.timeouts = @ \ {t},
               !.notifications =
                 IF \E k \in 1..Len(alertSystem.returned) :
                      /\ alertSystem.returned[k].id = t.alertId
                      /\ ~alertSystem.returned[k].acknowledged
                 THEN @ \cup {[alertId |-> t.alertId, urgency |-> "scheduled",
                               at |-> alertSystem.now]}
                 ELSE @]
  /\ UNCHANGED call
  /\ AlertFrame

\* time passes once every timeout that is due has run
ClockAdvances ==
  /\ alertSystem.now < alertSystem.started + MaxClockSteps * ClockStep
  /\ \A t \in alertSystem.timeouts : t.due > alertSystem.now
  /\ alertSystem' = [alertSystem EXCEPT !.now = @ + ClockStep]
  /\ UNCHANGED call
  /\ AlertFrame

AlertNext ==
  \/ PrioritizeAlerts
  \/ EscalateToProfessionals
  \/ AcknowledgeAlert
  \/ TimeoutFires
  \/ ClockAdvances

AlertSpec == AlertInit /\ [][AlertNext]_vars

(***************************************************************************)
(* Properties.                                                             *)
(***************************************************************************)
InRange(x, lo, hi) == Ge(x, lo) /\ Le(x, hi)

IsFlat(data) == \A i \in 1..Len(data) : data[i] = data[1]

\* C3: calculateZScore returns 0 when std is 0 and |value - mean| / std
\* otherwise; the result is never negative, whichever side of the mean
\* the value lies on.
C3_ZScoreIsAbsoluteDeviation ==
  call.op = "calculateZScore" =>
    /\ Ge(call.ret, Num(0))
    /\ call.std = Num(0) => call.ret = Num(0)
    /\ call.std # Num(0) => Mul(call.ret, call.std) = MathAbs(Sub(call.value, call.mean))

C3_Witness ==
  /\ call.op = "calculateZScore"
  /\ Lt(call.value, call.mean)
  /\ call.std # Num(0)
  /\ Gt(call.ret, Num(2))

\* C9: for a flat series [a, a, ..., a] of length at least 3, predictNextValue
\* returns prediction a and a confidence that is a number in [30, 90].
C9_FlatSeriesPredictsItself ==
  (call.op = "predictNextValue" /\ Len(call.data) >= 3 /\ IsFlat(call.data)) =>
    /\ call.ret.prediction = call.data[1]
    /\ InRange(call.ret.confidence, Num(30), Num(90))

\* C10: for a series of fewer than 3 values, predictNextValue returns the last
\* value (0 for the empty series) with confidence 30, whatever periods is.
C10_ShortSeriesReturnsLast ==
  (call.op = "predictNextValue" /\ Len(call.data) < 3) =>
    /\ call.ret.confidence = Num(30)
    /\ call.ret.prediction = IF Len(call.data) = 0 THEN Num(0) ELSE call.data[Len(call.data)]

C10_Witness ==
  /\ call.op = "predictNextValue"
  /\ Len(call.data) = 2
  /\ call.data[1] # call.data[2]
  /\ call.periods > 1
  /\ call.ret.prediction = call.data[2]


\* |v - mean| / std > k, cross-multiplied; a zero std never exceeds
Exceeds(v, stats, k) ==
  /\ stats.std # Num(0)
  /\ Gt(MathAbs(Sub(v, stats.mean)), Mul(Num(k), stats.std))

InsightsOf(insights, type, metric) ==
  {i \in 1..Len(insights) : insights[i].type = type /\ insights[i].metric = metric}

AnomalyAsClaimed(insights, metric, v, stats) ==
  LET found == InsightsOf(insights, "anomaly", metric)
  IN  /\ Cardinality(found) = IF Exceeds(v, stats, 2) THEN 1 ELSE 0
      /\ \A i \in found :
           insights[i].severity = IF Exceeds(v, stats, 3) THEN "critical" ELSE "high"

\* C1: for heart rate and systolic pressure alike, detectAnomalies emits the
\* metric's anomaly insight exactly when its z-score against the subject's
\* baseline is strictly greater than 2, with severity critical exactly when
\* the z-score is strictly greater than 3 and high otherwise.
C1_AnomalyThresholds ==
  call.op = "detectAnomalies" =>
    LET baseline == BaselineOf(patientBaselines, call.patientId)
    IN  /\ AnomalyAsClaimed(call.ret, "heartRate", call.currentData.heartRate, baseline.heartRate)
        /\ AnomalyAsClaimed(call.ret, "bloodPressure", call.currentData.bloodPressure.systolic,
                            baseline.systolic)

\* baseline mean 75 / std 10: heart rate 106 is critical, systolic 89 (below
\* a mean of 120, std 10) is critical as well
C1_Witness ==
  /\ call.op = "detectAnomalies"
  /\ call.patientId \in DOMAIN patientBaselines
  /\ patientBaselines[call.patientId].heartRate.mean = Num(75)
  /\ patientBaselines[call.patientId].heartRate.std = Num(10)
  /\ call.currentData.heartRate = Num(106)
  /\ \E i \in InsightsOf(call.ret, "anomaly", "heartRate") : call.ret[i].severity = "critical"
  /\ \E i \in InsightsOf(call.ret, "anomaly", "bloodPressure") : call.ret[i].severity = "critical"

\* the category scores as the claims state them, from the z-scores of the call
ClaimedZ(v, stats) ==
  IF stats.std = Num(0) THEN Num(0) ELSE Div(MathAbs(Sub(v, stats.mean)), stats.std)

Capped(x) == IF Gt(x, Num(100)) THEN Num(100) ELSE x

ClaimedCardio(cur, b) ==
  Capped(Mul(Num(15), Add(ClaimedZ(cur.heartRate, b.heartRate),
                          Add(ClaimedZ(cur.bloodPressure.systolic, b.systolic),
                              ClaimedZ(cur.bloodPressure.diastolic, b.diastolic)))))

ClaimedResp(cur, b) == Capped(Mul(Num(25), ClaimedZ(cur.oxygenSat, b.oxygenSat)))

ClaimedMetab(cur, b) == Capped(Mul(Num(20), ClaimedZ(cur.temperature, b.temperature)))

IsPercent(x) == x[2] = 1 /\ x[1] \in 0..100

\* C2: overall = round(cardio * 0.5 + resp * 0.3 + metab * 0.2) over the
\* unrounded, capped category scores of the same call.
C2_OverallIsWeightedSum ==
  call.op = "calculateHealthRiskScore" =>
    LET b == BaselineOf(patientBaselines, call.patientId)
        cur == call.currentData
    IN  call.ret.overall =
          MathRound(Div(Add(Add(Mul(Num(5), ClaimedCardio(cur, b)), Mul(Num(3), ClaimedResp(cur, b))),
                            Mul(Num(2), ClaimedMetab(cur, b))),
                        Num(10)))

\* a call whose category scores are not all integers and not all capped
C2_Witness ==
  /\ call.op = "calculateHealthRiskScore"
  /\ LET b == BaselineOf(patientBaselines, call.patientId)
     IN  /\ ClaimedCardio(call.currentData, b)[2] # 1
         /\ Lt(ClaimedResp(call.currentData, b), Num(100))
  /\ Gt(call.ret.overall, Num(0))
  /\ call.ret.overall # call.ret.cardiovascular

\* C7: cardiovascular = round(min(100, (zHR + zSys + zDia) * 15)), respiratory =
\* round(min(100, zO2 * 25)), metabolic = round(min(100, zTemp * 20)); each of
\* the four scores is an integer in 0..100.
C7_CategoryScores ==
  call.op = "calculateHealthRiskScore" =>
    LET b == BaselineOf(patientBaselines, call.patientId)
        cur == call.currentData
    IN  /\ call.ret.cardiovascular = MathRound(ClaimedCardio(cur, b))
        /\ call.ret.respiratory = MathRound(ClaimedResp(cur, b))
        /\ call.ret.metabolic = MathRound(ClaimedMetab(cur, b))
        /\ IsPercent(call.ret.cardiovascular)
        /\ IsPercent(call.ret.respiratory)
        /\ IsPercent(call.ret.metabolic)
        /\ IsPercent(call.ret.overall)

\* a call where the cap applies to one category and not to another
C7_Witness ==
  /\ call.op = "calculateHealthRiskScore"
  /\ call.ret.cardiovascular = Num(100)
  /\ Gt(call.ret.metabolic, Num(0))
  /\ Lt(call.ret.metabolic, Num(100))
  /\ LET b == BaselineOf(patientBaselines, call.patientId)
         cur == call.currentData
     IN  Gt(Mul(Num(15), Add(ClaimedZ(cur.heartRate, b.heartRate),
                             Add(ClaimedZ(cur.bloodPressure.systolic, b.systolic),
                                 ClaimedZ(cur.bloodPressure.diastolic, b.diastolic)))),
            Num(100))

ClaimedDefaultBaseline ==
  [heartRate   |-> [mean |-> <<75, 1>>,  std |-> <<15, 1>>, min |-> <<60, 1>>, max |-> <<90, 1>>],
   systolic    |-> [mean |-> <<120, 1>>, std |-> <<20, 1>>, min |-> <<90, 1>>, max |-> <<140, 1>>],
   diastolic   |-> [mean |-> <<80, 1>>,  std |-> <<10, 1>>, min |-> <<60, 1>>, max |-> <<90, 1>>],
   temperature |-> [mean |-> <<37, 1>>,  std |-> <<1, 2>>,  min |-> <<73, 2>>, max |-> <<75, 2>>],
   oxygenSat   |-> [mean |-> <<98, 1>>,  std |-> <<2, 1>>,  min |-> <<95, 1>>, max |-> <<100, 1>>],
   dataPoints  |-> 0]

\* C5: updatePatientBaseline with an empty history returns exactly the fixed
\* default baseline, whatever the subject id and whatever was stored before.
C5_EmptyHistoryReturnsDefault ==
  (call.op = "updatePatientBaseline" /\ Len(call.data) = 0) =>
    call.ret = ClaimedDefaultBaseline

\* an empty-history update for a subject that has a stored baseline
C5_Witness ==
  /\ call.op = "updatePatientBaseline"
  /\ Len(call.data) = 0
  /\ call.patientId \in DOMAIN patientBaselines
  /\ patientBaselines[call.patientId] # ClaimedDefaultBaseline

\* C6: after updatePatientBaseline(id, history) returns baseline B, for every
\* history (the empty one included) and every subject (one that has a stored
\* baseline included), the baseline that detectAnomalies and
\* calculateHealthRiskScore use for id is B.
C6_ReturnedBaselineIsUsed ==
  call.op = "updatePatientBaseline" =>
    BaselineOf(patientBaselines, call.patientId) = call.ret

\* C8: every confidence produced by detectAnomalies, calculateHealthRiskScore
\* and predictNextValue is a number in [0, 100], for all inputs.
C8_ConfidenceInRange ==
  /\ call.op = "detectAnomalies" =>
       \A i \in 1..Len(call.ret) : InRange(call.ret[i].confidence, Num(0), Num(100))
  /\ call.op = "calculateHealthRiskScore" =>
       InRange(call.ret.confidence, Num(0), Num(100))
  /\ call.op = "predictNextValue" =>
       InRange(call.ret.confidence, Num(0), Num(100))


\* C4: the history window holds at most 20 readings; a tick appends the new
\* reading at the end, removes exactly the oldest reading when the window
\* already held 20 and nothing otherwise, and keeps the others in order.
C4_WindowKeepsLast20 ==
  [][ticks' # ticks =>
       /\ Len(chartData') <= 20
       /\ chartData'[Len(chartData')] = dash'.currentData
       /\ dash'.currentData.timestamp = ticks'
       /\ IF Len(chartData) = 20
          THEN /\ Len(chartData') = 20
               /\ \A i \in 1..19 : chartData'[i] = chartData[i + 1]
          ELSE /\ Len(chartData') = Len(chartData) + 1
               /\ \A i \in 1..Len(chartData) : chartData'[i] = chartData[i]]_vars

\* a full window after the first evictions, still holding a reading that differs
C4_Witness ==
  /\ ticks > 21
  /\ Len(chartData) = 20
  /\ chartData[1].timestamp = ticks - 19
  /\ \E i \in 1..20 : chartData[i].heartRate # chartData[20].heartRate

\* the population variance (divide by n) of a non-empty sequence
PopulationVariance(data) ==
  LET n == Len(data)
      mean == Div(SumSeq(data), Num(n))
  IN  Div(SumSeq([i \in 1..n |-> Mul(Sub(data[i], mean), Sub(data[i], mean))]), Num(n))

\* C11: calculateStandardDeviation returns a non-negative number for every
\* sequence: 0 for the empty one, and the population standard deviation (the
\* root of the variance over n, to within the precision of the root) otherwise.
C11_StdDevNonNegative ==
  call.op = "calculateStandardDeviation" =>
    /\ Ge(call.ret, Num(0))
    /\ Len(call.data) = 0 => call.ret = Num(0)
    /\ Len(call.data) > 0 =>
         /\ Le(Mul(call.ret, call.ret), PopulationVariance(call.data))
         /\ Gt(MathPow2(Add(call.ret, Num(1))), PopulationVariance(call.data))
IsConstant(x) == \A i \in 1..Len(x) : x[i] = x[1]

\* C12: calculateCorrelation and pearsonCorrelation return 0 when the two
\* sequences differ in length, when they are empty and when either sequence
\* has zero variance, and a value r with -1 <= r <= 1 otherwise.
C12_CorrelationBounded ==
  call.op \in {"calculateCorrelation", "pearsonCorrelation"} =>
    IF Len(call.x) # Len(call.y) \/ Len(call.x) = 0 \/ IsConstant(call.x) \/ IsConstant(call.y)
    THEN call.ret = Num(0)
    ELSE InRange(call.ret, Num(-1), Num(1))

\* the confidence the risk score reports for a window of w readings
ClaimedConfidence(w) == IF w <= 10 THEN Num(7 * w) ELSE Num(85)

\* C13: along the ticks of a mounted dashboard the confidence of the risk score
\* is 7w for a window of w = min(ticks, 20) readings with w <= 10 and 85 for a
\* longer window, and it never decreases from one tick to the next.
C13_ConfidenceRamp ==
  [][ticks' = ticks + 1 =>
        /\ dash'.healthRiskScore.confidence =
             ClaimedConfidence(IF ticks' < WindowCapacity THEN ticks' ELSE WindowCapacity)
        /\ Ge(dash'.healthRiskScore.confidence, dash.healthRiskScore.confidence)]_vars

C13_Witness ==
  /\ ticks > WindowCapacity
  /\ Len(chartData) = WindowCapacity
  /\ dash.healthRiskScore.confidence = Num(85)

\* the 5-point risk series of the trend analysis, as the claim describes it
ClaimedRiskSeries(h, b) ==
  [i \in 1..5 |->
     LET d == h[Len(h) - 5 + i]
     IN  Mul(Num(15), Add(ClaimedZ(d.heartRate, b.heartRate),
                          ClaimedZ(d.bloodPressure.systolic, b.systolic)))]

IsIncreasing(x) == \A i \in 1..(Len(x) - 1) : Lt(x[i], x[i + 1])

\* C14: the trend is 'stable' whenever the last 5 readings of the history are
\* identical to each other and to the current reading, whatever the baseline;
\* it is 'deteriorating' whenever the 5-point risk series increases
\* monotonically and its forecast exceeds the current cardiovascular score by
\* more than 10.
C14_TrendFromHistory ==
  (call.op = "calculateHealthRiskScore" /\ Len(call.historicalData) >= 5) =>
    LET h == call.historicalData
        b == BaselineOf(patientBaselines, call.patientId)
        series == ClaimedRiskSeries(h, b)
    IN  /\ (\A i \in (Len(h) - 4)..Len(h) : h[i] = call.currentData)
             => call.ret.trend = "stable"
        /\ (/\ IsIncreasing(series)
            /\ Gt(PredictionOnly(series, 1), Add(ClaimedCardio(call.currentData, b), Num(10))))
             => call.ret.trend = "deteriorating"

\* the key under which the dashboard stores the baseline of its patient
DashboardPatientId == IF selectedPatient = "null" THEN "default" ELSE selectedPatient

HasInsight(insights, title) == \E i \in 1..Len(insights) : insights[i].title = title

\* C15: detectAnomalies keeps no memory of what it emitted before: at every
\* tick whose reading lies more than 2 standard deviations from the stored
\* baseline the insight is shown again, whatever the previous tick showed, and
\* the insights of a tick are a function of the stored baseline, the current
\* reading and the window alone.
C15_NoDebouncing ==
  [][ticks' = ticks + 1 =>
        LET b == patientBaselines'[DashboardPatientId]
            cur == dash'.currentData
        IN  /\ Exceeds(cur.heartRate, b.heartRate, 2)
                 <=> HasInsight(dash'.aiInsights, "Heart Rate Anomaly")
            /\ Exceeds(cur.bloodPressure.systolic, b.systolic, 2)
                 <=> HasInsight(dash'.aiInsights, "Blood Pressure Anomaly")
            /\ dash'.aiInsights =
                 detectAnomalies(patientBaselines', DashboardPatientId, cur, chartData')]_vars

\* two ticks in a row whose readings qualify: the window has not overflowed,
\* so the previous tick saw the window without its last reading
C15_Witness ==
  /\ ticks <= WindowCapacity
  /\ Len(chartData) >= 2
  /\ HasInsight(dash.aiInsights, "Heart Rate Anomaly")
  /\ LET before == SubSeq(chartData, 1, Len(chartData) - 1)
         pb == updatePatientBaseline(<<>>, DashboardPatientId, before).pb
     IN  HasInsight(detectAnomalies(pb, DashboardPatientId, before[Len(before)], before),
                    "Heart Rate Anomaly")

InsightsOfType(insights, type) == {i \in 1..Len(insights) : insights[i].type = type}

\* C16: one call of detectAnomalies returns at most one heart-rate anomaly, at
\* most one blood-pressure anomaly and at most one correlation insight, and no
\* insight of type anomaly at all for a reading whose heart rate and systolic
\* pressure lie within 2 standard deviations of the baseline, wherever its
\* temperature, oxygen saturation and diastolic pressure lie.
C16_OnlyHeartRateAndSystolic ==
  call.op = "detectAnomalies" =>
    LET baseline == BaselineOf(patientBaselines, call.patientId)
        cur == call.currentData
    IN  /\ Cardinality(InsightsOf(call.ret, "anomaly", "heartRate")) <= 1
        /\ Cardinality(InsightsOf(call.ret, "anomaly", "bloodPressure")) <= 1
        /\ Cardinality(InsightsOfType(call.ret, "correlation")) <= 1
        /\ (/\ ~Exceeds(cur.heartRate, baseline.heartRate, 2)
            /\ ~Exceeds(cur.bloodPressure.systolic, baseline.systolic, 2))
             => InsightsOfType(call.ret, "anomaly") = {}

\* temperature 8, oxygen saturation 6.5 and diastolic pressure 4 default
\* standard deviations from the mean, and the only insight is the correlation
C16_Witness ==
  /\ call.op = "detectAnomalies"
  /\ call.currentData = OffVitalsReading
  /\ Exceeds(call.currentData.temperature,
             BaselineOf(patientBaselines, call.patientId).temperature, 2)
  /\ Exceeds(call.currentData.oxygenSat,
             BaselineOf(patientBaselines, call.patientId).oxygenSat, 2)
  /\ Exceeds(call.currentData.bloodPressure.diastolic,
             BaselineOf(patientBaselines, call.patientId).diastolic, 2)
  /\ Len(call.ret) = 1
  /\ call.ret[1].type = "correlation"

\* C17: login returns true and sets currentUser to a user with the given role
\* for every non-empty email and non-empty password, selecting the first mock
\* patient when the role is 'patient'; when the email or the password is empty
\* it returns false and leaves currentUser and selectedPatient as they were.
C17_LoginAcceptsNonEmpty ==
  [][(call' # call /\ call'.op = "login") =>
        IF call'.email # "" /\ call'.password # ""
        THEN /\ call'.ret = TRUE
             /\ currentUser' # NoUser
             /\ currentUser'.role = call'.role
             /\ currentUser'.email = call'.email
             /\ call'.role = "patient" => selectedPatient' = MockPatients[1]
        ELSE /\ call'.ret = FALSE
             /\ currentUser' = currentUser
             /\ selectedPatient' = selectedPatient]_vars

\* a patient has logged in and is the selected patient
C17_Witness ==
  /\ call.op = "login"
  /\ call.ret = TRUE
  /\ call.role = "patient"
  /\ currentUser = User("patient", call.email)
  /\ selectedPatient = MockPatients[1]

\* the reading is one that generateMockData produces for the patient (the
\* base values of the two mock patients and of no patient differ)
GeneratedFor(reading, patient) ==
  \E r \in RandomDraws : reading = generateMockData(IdOf(patient), r, reading.timestamp)

\* C18: every reading of the window from which a tick recomputes the baseline
\* of its subject, detects anomalies and scores the risk was generated for that
\* subject: after the selected patient changed from A to B, nothing of B is
\* computed from readings of A.
C18_WindowOfOneSubject ==
  [][ticks' = ticks + 1 =>
        \A patient \in {"null"} \cup PatientIds :
          GeneratedFor(dash'.currentData, patient) =>
            \A i \in 1..Len(chartData') : GeneratedFor(chartData'[i], patient)]_vars

\* C19: within one tick the reading is generated and appended, then the
\* baseline is recomputed, then anomalies are detected, the risk is scored and
\* the recommendations are made: the baseline that the analysis reads is the
\* one recomputed in this tick from the window that ends with the current
\* reading, its dataPoints is the length of that window, at least 1, and it is
\* never the default baseline.
C19_AnalysisReadsFreshBaseline ==
  [][ticks' = ticks + 1 =>
        /\ Len(chartData') >= 1
        /\ chartData'[Len(chartData')] = dash'.currentData
        /\ DashboardPatientId \in DOMAIN patientBaselines'
        /\ LET b == patientBaselines'[DashboardPatientId]
               cur == dash'.currentData
           IN  /\ b = updatePatientBaseline(<<>>, DashboardPatientId, chartData').ret
               /\ b.dataPoints = Len(chartData')
               /\ b # getDefaultBaseline
               /\ dash'.aiInsights =
                    detectAnomalies(patientBaselines', DashboardPatientId, cur, chartData')
               /\ dash'.healthRiskScore =
                    calculateHealthRiskScore(patientBaselines', DashboardPatientId, cur, chartData')
               /\ dash'.aiRecommendations =
                    generateRecommendations(DashboardPatientId, cur, dash'.healthRiskScore,
                                            dash'.aiInsights)]_vars

\* the first tick: a baseline of one reading, which the risk score has read
C19_Witness ==
  /\ ticks = 1
  /\ DashboardPatientId \in DOMAIN patientBaselines
  /\ patientBaselines[DashboardPatientId].dataPoints = 1
  /\ dash.healthRiskScore.confidence = Num(7)

\* C20: at most one interval timer is active at any time: when the patient
\* changes or the dashboard leaves the tree the previous timer is cleared
\* before a new one starts, no callback of a cleared timer runs afterwards, and
\* every tick works for the patient that was selected when its timer was
\* created, which is the patient the effect last ran with.
C20_OneTimer ==
  [][/\ Len(timers') <= 1
     /\ ~mounted' => timers' = <<>>
     /\ ticks' = ticks + 1 =>
          /\ Len(timers) = 1
          /\ timers[1] = effectDeps
          /\ GeneratedFor(dash'.currentData, timers[1])
          /\ timers' = timers]_vars

\* the patient changed from '2' to '1' on a mounted dashboard: the timer of
\* '2' ticked, it was replaced by the timer of '1', and that one ticked
C20_Witness ==
  /\ mounted
  /\ timers = <<"1">>
  /\ Len(chartData) = 2
  /\ GeneratedFor(chartData[1], "2")
  /\ GeneratedFor(chartData[2], "1")
  /\ dash.currentData = chartData[2]

\* the rules of an episode kind as the prediction is described: fired rules
\* over the last ten readings, a threshold and a cap
ClaimedRules(kind, data) ==
  IF kind = "cardiac_event" THEN CardiacRules(data)
  ELSE IF kind = "hypertensive_crisis" THEN HypertensiveRules(data)
  ELSE RespiratoryRules(data)

ClaimedThreshold(kind) ==
  IF kind = "cardiac_event" THEN Frac(3, 10)
  ELSE IF kind = "hypertensive_crisis" THEN Frac(25, 100)
  ELSE Frac(2, 10)

ClaimedCap(kind) == IF kind = "respiratory_distress" THEN Frac(8, 10) ELSE Frac(9, 10)

EpisodeKinds == {"cardiac_event", "hypertensive_crisis", "respiratory_distress"}

EpisodesOfKind(predictions, kind) == SelectSeq(predictions, LAMBDA e : e.type = kind)

\* C21: predictHealthEpisodes emits an episode of a kind exactly when the
\* history has at least 20 readings and the increments of the kind's fired
\* rules sum to strictly more than the kind's threshold; the probability is
\* that sum capped at 0.9, 0.9 and 0.8, and the triggers are exactly the
\* labels of the fired rules
C21_EpisodeEmission ==
  call.op = "predictHealthEpisodes" =>
    \A kind \in EpisodeKinds :
      LET emitted == EpisodesOfKind(call.ret, kind)
          rules == ClaimedRules(kind, call.historicalData)
          claimed == /\ Len(call.historicalData) >= 20
                     /\ Gt(RiskScoreOf(rules), ClaimedThreshold(kind))
      IN  /\ Len(emitted) = (IF claimed THEN 1 ELSE 0)
          /\ claimed =>
               /\ emitted[1].probability = MathMin(ClaimedCap(kind), RiskScoreOf(rules))
               /\ emitted[1].triggers = TriggersOf(rules)

\* a cardiac episode of two rules next to a capped respiratory one
C21_Witness ==
  /\ call.op = "predictHealthEpisodes"
  /\ \E i \in 1..Len(call.ret) :
       /\ call.ret[i].type = "cardiac_event"
       /\ Len(call.ret[i].triggers) = 2
  /\ \E i \in 1..Len(call.ret) :
       /\ call.ret[i].type = "respiratory_distress"
       /\ call.ret[i].probability = Frac(8, 10)
       /\ Len(call.ret[i].triggers) = 3

\* C27: every cardiac_event prediction has severity 'high', never
\* 'critical', and lists at least two triggers
C27_CardiacNeverCritical ==
  call.op = "predictHealthEpisodes" =>
    \A i \in 1..Len(call.ret) :
      call.ret[i].type = "cardiac_event" =>
        /\ call.ret[i].severity = "high"
        /\ Len(call.ret[i].triggers) >= 2

\* a cardiac episode with all three rules fired, and one with two
C27_Witness ==
  /\ call.op = "predictHealthEpisodes"
  /\ \E i \in 1..Len(call.ret) :
       /\ call.ret[i].type = "cardiac_event"
       /\ Len(call.ret[i].triggers) = 3
       /\ call.ret[i].probability = Frac(7, 10)

\* the forecast as described: level + i * trend with confidence max(30, 90 - 10 i)
ClaimedForecast(values, i) ==
  [value |-> Add(values[Len(values)],
                 Mul(Num(i), Sub(values[Len(values)], values[Len(values) - 1]))),
   confidence |-> IF 90 - 10 * i > 30 THEN Num(90 - 10 * i) ELSE Num(30)]

\* C22: for a history of at least 10 readings predictMultipleVitals returns
\* for each of the five metrics exactly `periods` forecasts, the i-th with
\* value level + i * trend and confidence max(30, 90 - 10 i); for a shorter
\* history it returns the empty list
C22_ForecastIsExtrapolation ==
  call.op = "predictMultipleVitals" =>
    IF Len(call.historicalData) < 10 THEN call.ret = <<>>
    ELSE /\ Len(call.ret) = 5
         /\ \A m \in 1..Len(call.ret) :
              /\ call.ret[m].metric = ForecastMetrics[m]
              /\ Len(call.ret[m].predictions) = call.periods
              /\ \A i \in 1..call.periods :
                   call.ret[m].predictions[i] =
                     ClaimedForecast(extractMetricValues(call.historicalData, call.ret[m].metric), i)

\* the risk reduction as described: the sum over the intervention's metrics of
\* |delta| / currentValue * 0.2
ClaimedRiskReduction(intervention, r) ==
  LET hr == Div(Num(1), r.heartRate)
      sys == Div(Num(1), r.bloodPressure.systolic)
      dia == Div(Num(1), r.bloodPressure.diastolic)
      fifth(x) == Mul(x, Frac(2, 10))
  IN  IF intervention = "exercise"
      THEN Add(Add(fifth(Mul(Num(5), hr)), fifth(Mul(Num(8), sys))), fifth(Mul(Num(5), dia)))
      ELSE IF intervention = "diet_modification"
      THEN Add(fifth(Mul(Num(12), sys)), fifth(Mul(Num(8), dia)))
      ELSE IF intervention = "stress_reduction"
      THEN Add(fifth(Mul(Num(8), hr)), fifth(Mul(Num(10), sys)))
      ELSE IF intervention = "medication_adherence"
      THEN Add(fifth(Mul(Num(20), sys)), fifth(Mul(Num(15), dia)))
      ELSE Num(0)

InGeneratorRange(r) ==
  /\ Ge(r.heartRate, Num(70))
  /\ Ge(r.bloodPressure.systolic, Num(120))
  /\ Ge(r.bloodPressure.diastolic, Num(80))

\* C26: modelInterventionImpact returns exactly the interventions whose risk
\* reduction is strictly greater than 0.1, larger reductions first; for a
\* current reading in the generator's range it returns the empty list
C26_InterventionImpact ==
  call.op = "modelInterventionImpact" =>
    /\ \A k \in 1..Len(call.ret) :
         /\ call.ret[k].riskReduction =
              ClaimedRiskReduction(call.ret[k].intervention, call.currentData)
         /\ Gt(call.ret[k].riskReduction, Frac(1, 10))
    /\ \A k \in 1..(Len(call.ret) - 1) :
         Ge(call.ret[k].riskReduction, call.ret[k + 1].riskReduction)
    /\ \A j \in 1..Len(call.interventions) :
         Gt(ClaimedRiskReduction(call.interventions[j], call.currentData), Frac(1, 10)) =>
           \E k \in 1..Len(call.ret) : call.ret[k].intervention = call.interventions[j]
    /\ InGeneratorRange(call.currentData) => call.ret = <<>>

\* four interventions returned from a list that was given in ascending order
C26_Witness ==
  /\ call.op = "modelInterventionImpact"
  /\ Len(call.ret) = 4
  /\ call.interventions[1] = "exercise"
  /\ call.ret[1].intervention = "medication_adherence"

\* a reading in the generator's range, for which nothing is returned
C26_WitnessInRange ==
  /\ call.op = "modelInterventionImpact"
  /\ InGeneratorRange(call.currentData)
  /\ call.ret = <<>>

\* the calls that are described as reading the stored baselines only
ReadsBaselinesOnly(c) ==
  \/ c.op \in {"detectAnomalies", "calculateHealthRiskScore", "generateRecommendations",
               "predictNextValue"}
  \/ c.op = "updatePatientBaseline" /\ Len(c.data) = 0

\* C28: the stored baselines change only through updatePatientBaseline with
\* a non-empty history, and then only in the entry of that patient; every
\* other call of the engine leaves every stored baseline unchanged
C28_BaselineFrame ==
  [][/\ patientBaselines' # patientBaselines =>
          /\ call'.op = "updatePatientBaseline"
          /\ Len(call'.data) > 0
          /\ DOMAIN patientBaselines' = DOMAIN patientBaselines \cup {call'.patientId}
          /\ \A k \in DOMAIN patientBaselines :
               k # call'.patientId => patientBaselines'[k] = patientBaselines[k]
     /\ ReadsBaselinesOnly(call') => patientBaselines' = patientBaselines]_vars

\* patient 2 was updated after patient 1 and patient 1's baseline is still
\* the one of another history
C28_Witness ==
  /\ call.op = "updatePatientBaseline"
  /\ call.patientId = "2"
  /\ Len(call.data) = 2
  /\ DOMAIN patientBaselines = {"1", "2"}
  /\ patientBaselines["1"].dataPoints = 2 * MaxPairs
  /\ patientBaselines["2"] = call.ret

\* C29: the professional dashboard is rendered only for a logged-in
\* professional; a logged-in patient at /professional gets the patient
\* health dashboard; without a user every location renders the login form
C29_RoleGuardedRoutes ==
  /\ View(route, currentUser) = "ProfessionalDashboard" =>
       currentUser # NoUser /\ currentUser.role = "professional"
  /\ (currentUser # NoUser /\ currentUser.role = "patient" /\ route = "/professional") =>
       View(route, currentUser) = "HealthDashboard" /\ mounted
  /\ currentUser = NoUser =>
       \A location \in {"/", "/professional", "/patient"} :
         View(location, currentUser) = "LoginForm"
  /\ currentUser = NoUser => ~mounted

\* a patient who logged in at /professional and has the health dashboard
C29_Witness ==
  /\ currentUser # NoUser
  /\ currentUser.role = "patient"
  /\ route = "/professional"
  /\ mounted
  /\ ticks > 0

\* C30: whenever no user is logged in, no patient is selected
C30_NoUserNoPatient == currentUser = NoUser => selectedPatient = "null"

\* a professional who had picked a patient ticks before has logged out
C30_Witness ==
  /\ call.op = "logout"
  /\ currentUser = NoUser
  /\ selectedPatient = "null"
  /\ route = "/"
  /\ ticks > 0

\* (value - mean)^2 <= (n - 1) * variance: the bound z <= sqrt(n - 1) without
\* the square root, which the model truncates
WithinSampleBound(value, mean, values) ==
  Le(Mul(Sub(value, mean), Sub(value, mean)),
     Mul(Num(Len(values) - 1), PopulationVariance(values)))

ZScoreOfCurrent(reading, stats) == calculateZScore(reading, stats.mean, stats.std)

\* C25: in the tick flow the baseline is recomputed from a window that
\* holds the current reading, so the current reading lies within sqrt(n - 1)
\* standard deviations of the stored mean for a window of n readings; no
\* heart-rate or blood-pressure anomaly is shown while the window holds 5 or
\* fewer readings, and on the first tick all z-scores and all four risk
\* scores are 0
C25_CurrentReadingBounded ==
  (mounted /\ ticks > 0) =>
    LET n == Len(chartData)
        cur == dash.currentData
        b == patientBaselines[DashboardPatientId]
    IN  /\ cur = chartData[n]
        /\ WithinSampleBound(cur.heartRate, b.heartRate.mean,
                             MapSeq(LAMBDA d : d.heartRate, chartData))
        /\ WithinSampleBound(cur.bloodPressure.systolic, b.systolic.mean,
                             MapSeq(LAMBDA d : d.bloodPressure.systolic, chartData))
        /\ WithinSampleBound(cur.bloodPressure.diastolic, b.diastolic.mean,
                             MapSeq(LAMBDA d : d.bloodPressure.diastolic, chartData))
        /\ WithinSampleBound(cur.temperature, b.temperature.mean,
                             MapSeq(LAMBDA d : d.temperature, chartData))
        /\ WithinSampleBound(cur.oxygenSat, b.oxygenSat.mean,
                             MapSeq(LAMBDA d : d.oxygenSat, chartData))
        /\ Le(ZScoreOfCurrent(cur.heartRate, b.heartRate), Num(2)) \/ n > 5
        /\ Le(ZScoreOfCurrent(cur.bloodPressure.systolic, b.systolic), Num(2)) \/ n > 5
        /\ n <= 5 => InsightsOfType(dash.aiInsights, "anomaly") = {}
        /\ ticks = 1 =>
             /\ n = 1
             /\ \A z \in {ZScoreOfCurrent(cur.heartRate, b.heartRate),
                          ZScoreOfCurrent(cur.bloodPressure.systolic, b.systolic),
                          ZScoreOfCurrent(cur.bloodPressure.diastolic, b.diastolic),
                          ZScoreOfCurrent(cur.temperature, b.temperature),
                          ZScoreOfCurrent(cur.oxygenSat, b.oxygenSat)} : z = Num(0)
             /\ dash.healthRiskScore.overall = Num(0)
             /\ dash.healthRiskScore.cardiovascular = Num(0)
             /\ dash.healthRiskScore.respiratory = Num(0)
             /\ dash.healthRiskScore.metabolic = Num(0)

\* the fifth reading is the only one that differs from the other four: its
\* z-score is exactly 2 = sqrt(5 - 1) and no anomaly is shown
C25_Witness ==
  /\ mounted
  /\ ticks = 5
  /\ Len(chartData) = 5
  /\ SpikesIn(chartData) = 1
  /\ chartData[5].steps # Num(8000)
  /\ ZScoreOfCurrent(dash.currentData.heartRate,
                     patientBaselines[DashboardPatientId].heartRate) = Num(2)
  /\ dash.aiInsights = <<>>

\* C23: acknowledgeAlert(id) for an alert that prioritizeAlerts returned
\* sets the alert's acknowledged flag, and so an alert that was acknowledged
\* before its 30-minute timeout came due gets no scheduled professional
\* notification
C23_AcknowledgeStopsEscalation ==
  /\ call.op = "acknowledgeAlert" =>
       \A k \in 1..Len(alertSystem.returned) :
         alertSystem.returned[k].id = call.alertId => alertSystem.returned[k].acknowledged
  /\ \A n \in alertSystem.notifications :
       n.urgency = "scheduled" =>
         ~\E c \in alertSystem.acknowledgeCalls : c.alertId = n.alertId /\ c.at < n.at

\* the two grounds on which a critical alert is described to be removed
ClaimedDuplicate(alert, context, now) ==
  \E k \in 1..Len(context.recentAlerts) :
    /\ context.recentAlerts[k].title = alert.title
    /\ context.recentAlerts[k].message = alert.message
    /\ now - context.recentAlerts[k].timestamp < 30

ClaimedRepeated(alert, context, now) ==
  Cardinality({k \in 1..Len(context.recentAlerts) :
                 /\ context.recentAlerts[k].type = alert.type
                 /\ context.recentAlerts[k].title = alert.title
                 /\ now - context.recentAlerts[k].timestamp < 120}) >= 2

IsReturned(alert, ret) == \E k \in 1..Len(ret) : ret[k].id = alert.id

\* C24: a critical alert built by prioritizeAlerts is removed by filtering
\* only if recentAlerts holds an alert with the same title and message less
\* than 30 minutes old, or at least two alerts of the same type and title less
\* than 2 hours old; quiet hours, medications and the stress / night filters
\* never remove it
C24_CriticalAlertsSurvive ==
  call.op = "prioritizeAlerts" =>
    LET built == BuiltAlerts(call.insights, call.predictions, call.context, 1, call.now)
    IN  \A k \in 1..Len(built) :
          (built[k].priority = "critical" /\ ~IsReturned(built[k], call.ret)) =>
            \/ ClaimedDuplicate(built[k], call.context, call.now)
            \/ ClaimedRepeated(built[k], call.context, call.now)

\* at eleven at night, for a stressed patient on beta-blockers, a critical
\* blood pressure anomaly and a critical hypertensive crisis are both returned
C24_Witness ==
  /\ call.op = "prioritizeAlerts"
  /\ call.now % (24 * 60) >= 22 * 60
  /\ call.context.timeOfDay = "night"
  /\ Len(call.context.currentMedications) > 0
  /\ Len(call.context.stressFactors) > 0
  /\ Len(call.context.recentAlerts) = 0
  /\ \E k \in 1..Len(call.ret) :
       call.ret[k].priority = "critical" /\ call.ret[k].title = "Blood Pressure Anomaly"
  /\ \E k \in 1..Len(call.ret) :
       call.ret[k].priority = "critical" /\ call.ret[k].title = "Hypertensive Crisis Risk"

====
